---- MODULE Spec2Model ----
(***************************************************************************)
(* boto3-client-cache: the LRU cache, the LFU cache with its frequency     *)
(* index (a doubly-linked list of frequency nodes), and the Session that   *)
(* consults them.  Definitions are translated from                         *)
(* src/boto3_client_cache/cache.py and src/boto3_client_cache/session.py.  *)
(*   Spec         one cache object and one caller, a call per step         *)
(*   SpecSession  one Session, a call of client() or resource() per step   *)
(*   SpecConc     one cache object and two threads, a statement per step   *)
(*   SpecHeap     cache objects made by the factories, a copy and a         *)
(*                snapshot, all held by reference; a call per step         *)
(*   SpecRequests one Session asked for objects of call signatures that    *)
(*                differ from one another                                  *)
(*   SpecKeys     two cache keys constructed from two call signatures      *)
(*   SpecLFU      one LFU cache and one caller, a call per step            *)
(*   SpecUse      one cache and one caller passing keys and objects        *)
(*   SpecCallers  one Session and two threads, a statement of client() or  *)
(*                resource() per step                                      *)
(*   SpecLive     two cache objects and two threads under fair             *)
(*                scheduling, a statement per step                         *)
(***************************************************************************)
EXTENDS Integers, Sequences, FiniteSets, TLC

(***************************************************************************)
(* Bounds of the model.                                                    *)
(***************************************************************************)
NumKeys == 3

MaxCapacity == 2

MaxHits == 2

\* the max_size arguments of the Session's methods are -MaxSessionSize..MaxSessionSize
MaxSessionSize == 1

\* the calls made of the Session's methods
MaxCalls == 2

\* the keys the threads use
NumConcKeys == 2

\* the calls the threads make of the Session's methods
MaxEntered == 2

\* the calls of a Session with call signatures that differ from one another
MaxRequests == 11

\* the positional arguments of a cache key
MaxArgs == 10

\* the named arguments of a cache key, before one is added to them
MaxNamed == 2

\* the keys used on the caches held by reference
NumHeapKeys == 2

\* the highest number of hits of a key of a cache held by reference
MaxHeapHits == 1

(***************************************************************************)
(* The inputs.                                                             *)
(***************************************************************************)
\* Cache keys, up to equality: a positive number is a ClientCacheKey object,
\* a negative number a ResourceCacheKey object.  The keys the caller of a
\* client cache uses:
Keys == 1..NumKeys

\* an object that is no cache key
NotAKey == 0

\* Python's None
None == <<>>

\* no error raised
Ok == "Ok"

\* boto3 clients / resources, up to identity: the object built for a key,
\* and one more object
Obj(key) == <<"obj", key>>

OtherObj == <<"obj", NotAKey>>

Objs == {Obj(key) : key \in Keys} \cup {OtherObj}

\* an object that is neither a BaseClient nor a ServiceResource
NotAnObj == <<"str">>

\* the integers assigned to max_size
Sizes == (0 - MaxCapacity)..MaxCapacity

\* _BaseLRUCache.__init__ / _BaseLFUCache.__init__: max_size defaults to 10
DefaultMaxSize == 10

\* abs with the bug that the sign is kept
abs_signed(v) == v

abs(v) == IF v < 0 THEN 0 - v ELSE v

(***************************************************************************)
(* Python containers.                                                      *)
(***************************************************************************)
Range(s) == {s[i] : i \in DOMAIN s}

Min(S) == CHOOSE x \in S : \A y \in S : x <= y

\* an empty dict
EmptyMap == [x \in {} |-> None]

\* d[k] = v
MapSet(d, k, v) == [x \in (DOMAIN d) \cup {k} |-> IF x = k THEN v ELSE d[x]]

\* del d[k]
MapDel(d, k) == [x \in (DOMAIN d) \ {k} |-> d[x]]

\* An OrderedDict key -> value is a sequence of entries [k, v], oldest first.
OD_keys(od) == [i \in DOMAIN od |-> od[i].k]

OD_values(od) == [i \in DOMAIN od |-> od[i].v]

OD_contains(od, key) == \E i \in DOMAIN od : od[i].k = key

\* od[key] / od.get(key): the value stored for a key that is present
OD_get(od, key) == od[CHOOSE i \in DOMAIN od : od[i].k = key].v

\* del od[key]
OD_del(od, key) == SelectSeq(od, LAMBDA e : e.k # key)

\* od[key] = obj: a new key goes to the end, a present key keeps its place
OD_set(od, key, obj) ==
    IF OD_contains(od, key)
    THEN [i \in DOMAIN od |-> IF od[i].k = key THEN [k |-> key, v |-> obj] ELSE od[i]]
    ELSE Append(od, [k |-> key, v |-> obj])

\* od.move_to_end(key)
OD_move_to_end(od, key) ==
    Append(OD_del(od, key), [k |-> key, v |-> OD_get(od, key)])

\* od.popitem(last=False): the first entry leaves
OD_popitem_first(od) == Tail(od)

\* KS_add with the bug that a key enters a bucket at its front
KS_add_front(ks, key) == IF key \in Range(ks) THEN ks ELSE <<key>> \o ks

\* node.keys is an OrderedDict key -> None: a sequence of keys
KS_add(ks, key) == IF key \in Range(ks) THEN ks ELSE Append(ks, key)

KS_del(ks, key) == SelectSeq(ks, LAMBDA x : x # key)

Reverse(s) == [i \in 1..Len(s) |-> s[Len(s) + 1 - i]]

(***************************************************************************)
(* _FrequencyNode and _FrequencyIndex.  Nodes live in a heap f.nodes       *)
(* addressed by integers; NoNode is the None link.  A node that _prune     *)
(* unlinks is garbage and leaves the heap.                                 *)
(***************************************************************************)
NoNode == 0

_FrequencyNode(frequency) ==
    [frequency |-> frequency, keys |-> <<>>, prev |-> NoNode, next |-> NoNode]

_FrequencyIndex ==
    [head |-> NoNode, tail |-> NoNode, key_to_node |-> EmptyMap, nodes |-> EmptyMap]

\* the address of a newly constructed node of a frequency: any free address
\* will do; the allocator takes the frequency itself when that address is free
NewNode(f, frequency) ==
    IF frequency \notin DOMAIN f.nodes
    THEN frequency
    ELSE CHOOSE n \in 1..(frequency + Cardinality(DOMAIN f.nodes) + 1) :
            /\ n \notin DOMAIN f.nodes
            /\ \A m \in 1..(n - 1) : m \in DOMAIN f.nodes \/ m <= frequency

Alloc(f, node, frequency) ==
    [f EXCEPT !.nodes = MapSet(f.nodes, node, _FrequencyNode(frequency))]

_insert_before(f, reference, node) ==
    IF reference = NoNode
    THEN IF f.tail = NoNode
         THEN [f EXCEPT !.head = node, !.tail = node]
         ELSE [f EXCEPT !.nodes[f.tail].next = node,
                        !.nodes[node].prev = f.tail,
                        !.tail = node]
    ELSE LET previous == f.nodes[reference].prev
             g == [f EXCEPT !.nodes[node].prev = previous,
                            !.nodes[node].next = reference,
                            !.nodes[reference].prev = node]
         IN  IF previous = NoNode
             THEN [g EXCEPT !.head = node]
             ELSE [g EXCEPT !.nodes[previous].next = node]

_insert_after(f, reference, node) ==
    LET next_node == f.nodes[reference].next
        g == [f EXCEPT !.nodes[reference].next = node,
                       !.nodes[node].prev = reference,
                       !.nodes[node].next = next_node]
    IN  IF next_node = NoNode
        THEN [g EXCEPT !.tail = node]
        ELSE [g EXCEPT !.nodes[next_node].prev = node]

\* _prune with the bug that a node left without keys stays in the list
_prune_never(f, node) == f

\* _prune with the bug that the successor keeps its link to the pruned node
_prune_one_way(f, node) ==
    IF f.nodes[node].keys # <<>>
    THEN f
    ELSE LET previous == f.nodes[node].prev
             next_node == f.nodes[node].next
             g == IF previous = NoNode
                  THEN [f EXCEPT !.head = next_node]
                  ELSE [f EXCEPT !.nodes[previous].next = next_node]
             h == IF next_node = NoNode THEN [g EXCEPT !.tail = previous] ELSE g
         IN  [h EXCEPT !.nodes = MapDel(h.nodes, node)]

_prune(f, node) ==
    IF f.nodes[node].keys # <<>>
    THEN f
    ELSE LET previous == f.nodes[node].prev
             next_node == f.nodes[node].next
             g == IF previous = NoNode
                  THEN [f EXCEPT !.head = next_node]
                  ELSE [f EXCEPT !.nodes[previous].next = next_node]
             h == IF next_node = NoNode
                  THEN [g EXCEPT !.tail = previous]
                  ELSE [g EXCEPT !.nodes[next_node].prev = previous]
         IN  [h EXCEPT !.nodes = MapDel(h.nodes, node)]

FI_insert(f, key) ==
    LET fresh == f.head = NoNode \/ f.nodes[f.head].frequency # 1
        node == IF fresh THEN NewNode(f, 1) ELSE f.head
        g == IF fresh THEN _insert_before(Alloc(f, node, 1), f.head, node) ELSE f
    IN  [g EXCEPT !.nodes[node].keys = KS_add(@, key),
                  !.key_to_node = MapSet(g.key_to_node, key, node)]

FI_increment(f, key) ==
    LET current == f.key_to_node[key]
        target_frequency == f.nodes[current].frequency + 1
        next_node == f.nodes[current].next
        fresh == next_node = NoNode \/ f.nodes[next_node].frequency # target_frequency
        target == IF fresh THEN NewNode(f, target_frequency) ELSE next_node
        g == IF fresh
             THEN _insert_after(Alloc(f, target, target_frequency), current, target)
             ELSE f
        h == [g EXCEPT !.nodes[current].keys = KS_del(@, key),
                       !.nodes[target].keys = KS_add(@, key),
                       !.key_to_node[key] = target]
    IN  _prune(h, current)

\* FI_delete with the bug that the key stays in the key-to-node table
FI_delete_keeps_entry(f, key) ==
    LET node == f.key_to_node[key]
        g == [f EXCEPT !.nodes[node].keys = KS_del(@, key)]
    IN  _prune(g, node)

FI_delete(f, key) ==
    LET node == f.key_to_node[key]
        g == [f EXCEPT !.key_to_node = MapDel(f.key_to_node, key),
                       !.nodes[node].keys = KS_del(@, key)]
    IN  _prune(g, node)

\* FI_pop_least_frequent with the bug that it pops from the tail node
FI_pop_most_frequent(f) ==
    IF f.tail = NoNode
    THEN [f |-> f, key |-> NotAKey, exc |-> "CacheError"]
    ELSE LET node == f.tail
             key == Head(f.nodes[node].keys)
             g == [f EXCEPT !.nodes[node].keys = Tail(@),
                            !.key_to_node = MapDel(f.key_to_node, key)]
         IN  [f |-> _prune(g, node), key |-> key, exc |-> Ok]

\* [f: the index afterwards, key: the key returned, exc: the error raised]
FI_pop_least_frequent(f) ==
    IF f.head = NoNode
    THEN [f |-> f, key |-> NotAKey, exc |-> "CacheError"]
    ELSE LET node == f.head
             key == Head(f.nodes[node].keys)
             g == [f EXCEPT !.nodes[node].keys = Tail(@),
                            !.key_to_node = MapDel(f.key_to_node, key)]
         IN  [f |-> _prune(g, node), key |-> key, exc |-> Ok]

\* the walk of iter_keys from a node; the fuel bounds a walk over a broken list
RECURSIVE WalkNext(_, _, _)
WalkNext(f, current, fuel) ==
    IF current = NoNode \/ current \notin DOMAIN f.nodes \/ fuel = 0
    THEN <<>>
    ELSE f.nodes[current].keys \o WalkNext(f, f.nodes[current].next, fuel - 1)

RECURSIVE WalkPrev(_, _, _)
WalkPrev(f, current, fuel) ==
    IF current = NoNode \/ current \notin DOMAIN f.nodes \/ fuel = 0
    THEN <<>>
    ELSE Reverse(f.nodes[current].keys) \o WalkPrev(f, f.nodes[current].prev, fuel - 1)

FI_iter_keys(f) == WalkNext(f, f.head, Cardinality(DOMAIN f.nodes))

\* FI_iter_keys_reversed with the bug that the keys of a node are yielded
\* in their order, not reversed
RECURSIVE WalkPrev_unreversed(_, _, _)
WalkPrev_unreversed(f, current, fuel) ==
    IF current = NoNode \/ current \notin DOMAIN f.nodes \/ fuel = 0
    THEN <<>>
    ELSE f.nodes[current].keys \o WalkPrev_unreversed(f, f.nodes[current].prev, fuel - 1)

FI_iter_keys_reversed_unreversed(f) ==
    WalkPrev_unreversed(f, f.tail, Cardinality(DOMAIN f.nodes))

FI_iter_keys_reversed(f) == WalkPrev(f, f.tail, Cardinality(DOMAIN f.nodes))

\* copy(): the while loop from a node of the index on, clone being the copy
\* so far and previous_clone_node its last node; the fuel bounds a walk over
\* a broken list
RECURSIVE FI_copy_from(_, _, _, _, _)
FI_copy_from(f, current, clone, previous_clone_node, fuel) ==
    IF current = NoNode \/ current \notin DOMAIN f.nodes \/ fuel = 0
    THEN [clone EXCEPT !.tail = previous_clone_node]
    ELSE LET clone_node == NewNode(clone, f.nodes[current].frequency)
             g == [Alloc(clone, clone_node, f.nodes[current].frequency)
                      EXCEPT !.nodes[clone_node].keys = f.nodes[current].keys]
             h == IF g.head = NoNode THEN [g EXCEPT !.head = clone_node] ELSE g
             i == IF previous_clone_node # NoNode
                  THEN [h EXCEPT !.nodes[previous_clone_node].next = clone_node,
                                 !.nodes[clone_node].prev = previous_clone_node]
                  ELSE h
             j == [i EXCEPT !.key_to_node =
                       [k \in DOMAIN @ \cup Range(f.nodes[current].keys) |->
                           IF k \in Range(f.nodes[current].keys) THEN clone_node ELSE @[k]]]
         IN  FI_copy_from(f, f.nodes[current].next, j, clone_node, fuel - 1)

FI_copy(f) == FI_copy_from(f, f.head, _FrequencyIndex, NoNode, Cardinality(DOMAIN f.nodes))

\* the frequency the index records for a key
FI_frequency(f, key) == f.nodes[f.key_to_node[key]].frequency

(***************************************************************************)
(* A cache object.  policy tells the class (_BaseLRUCache / _BaseLFUCache);*)
(* od is the OrderedDict _cache of an LRU cache; map and frequencies are   *)
(* the dict _cache and the _FrequencyIndex of an LFU cache.                *)
(* An operation yields [c: the cache afterwards, ret: the value returned,  *)
(* exc: the error raised or Ok].                                           *)
(***************************************************************************)
Result(c, ret, exc) == [c |-> c, ret |-> ret, exc |-> exc]

\* isinstance(key, ClientCacheKey)
IsClientCacheKey(key) == key > 0

\* isinstance(key, ResourceCacheKey)
IsResourceCacheKey(key) == key < 0

\* isinstance(key, _AbstractCacheKey): both classes derive from it
IsCacheKey(key) == key # NotAKey

\* isinstance(obj, (BaseClient, ServiceResource))
IsBotoObject(obj) == Len(obj) > 0 /\ obj[1] = "obj"

\* an optional integer argument: None, or <<v>> for the integer v
OptSizes == {None} \cup {<<v>> : v \in Sizes}

InitMaxSize(max_size) == abs(IF max_size # None THEN max_size[1] ELSE DefaultMaxSize)

\* cache_type is None or <<t>> for the string t:
\* self.cache_type = cache_type or "client"
LRU__init__(cache_type, max_size) ==
    [policy |-> "LRU", cache_type |-> IF cache_type # None THEN cache_type[1] ELSE "client",
     max_size |-> InitMaxSize(max_size), od |-> <<>>,
     map |-> EmptyMap, frequencies |-> _FrequencyIndex]

LFU__init__(cache_type, max_size) ==
    [policy |-> "LFU", cache_type |-> IF cache_type # None THEN cache_type[1] ELSE "client",
     max_size |-> InitMaxSize(max_size), od |-> <<>>,
     map |-> EmptyMap, frequencies |-> _FrequencyIndex]

\* the public classes: super().__init__(cache_type=..., max_size=max_size)
LRUClientCache(max_size) == LRU__init__(<<"client">>, max_size)

LRUResourceCache(max_size) == LRU__init__(<<"resource">>, max_size)

LFUClientCache(max_size) == LFU__init__(<<"client">>, max_size)

LFUResourceCache(max_size) == LFU__init__(<<"resource">>, max_size)

(***************************************************************************)
(* _BaseLRUCache                                                           *)
(***************************************************************************)
\* LRU_evict_while_over with the bug that popitem takes the newest entry
RECURSIVE LRU_evict_newest_while_over(_)
LRU_evict_newest_while_over(c) ==
    IF Len(c.od) > c.max_size
    THEN LRU_evict_newest_while_over([c EXCEPT !.od = SubSeq(@, 1, Len(@) - 1)])
    ELSE c

RECURSIVE LRU_evict_while_over(_)
LRU_evict_while_over(c) ==
    IF Len(c.od) > c.max_size
    THEN LRU_evict_while_over([c EXCEPT !.od = OD_popitem_first(@)])
    ELSE c

LRU_max_size_setter(c, value) ==
    Result(LRU_evict_while_over([c EXCEPT !.max_size = abs(value)]), None, Ok)

\* LRU__getitem__ with the bug that a hit does not move the key to the end
LRU__getitem__no_touch(c, key) ==
    IF OD_contains(c.od, key)
    THEN Result(c, OD_get(c.od, key), Ok)
    ELSE Result(c, None, "NotFoundError")

LRU__getitem__(c, key) ==
    IF OD_contains(c.od, key)
    THEN Result([c EXCEPT !.od = OD_move_to_end(@, key)], OD_get(c.od, key), Ok)
    ELSE Result(c, None, "NotFoundError")

\* LRU__setitem__ with the bug that a present key is overwritten
LRU__setitem__overwrite(c, key, obj) ==
    IF ~IsCacheKey(key) THEN Result(c, None, "CacheError")
    ELSE IF ~IsBotoObject(obj) THEN Result(c, None, "CacheError")
    ELSE LET stored == OD_move_to_end(OD_set(c.od, key, obj), key)
         IN  IF Len(stored) > c.max_size
             THEN Result([c EXCEPT !.od = OD_popitem_first(stored)], None, Ok)
             ELSE Result([c EXCEPT !.od = stored], None, Ok)

\* LRU__setitem__ with the bug that the eviction test is >= and is made
\* before the insertion, so that a cache of capacity 0 keeps one entry
LRU__setitem__evict_before(c, key, obj) ==
    IF ~IsCacheKey(key) THEN Result(c, None, "CacheError")
    ELSE IF ~IsBotoObject(obj) THEN Result(c, None, "CacheError")
    ELSE IF OD_contains(c.od, key) THEN Result(c, None, "ExistsError")
    ELSE LET room == IF Len(c.od) >= c.max_size /\ c.od # <<>>
                     THEN OD_popitem_first(c.od)
                     ELSE c.od
         IN  Result([c EXCEPT !.od = OD_move_to_end(OD_set(room, key, obj), key)], None, Ok)

\* LRU__setitem__ with the bug that the eviction takes the newest entry
\* (popitem(last=True)), which is the key just set
LRU__setitem__evict_newest(c, key, obj) ==
    IF ~IsCacheKey(key) THEN Result(c, None, "CacheError")
    ELSE IF ~IsBotoObject(obj) THEN Result(c, None, "CacheError")
    ELSE IF OD_contains(c.od, key) THEN Result(c, None, "ExistsError")
    ELSE LET stored == OD_move_to_end(OD_set(c.od, key, obj), key)
         IN  IF Len(stored) > c.max_size
             THEN Result([c EXCEPT !.od = SubSeq(stored, 1, Len(stored) - 1)], None, Ok)
             ELSE Result([c EXCEPT !.od = stored], None, Ok)

LRU__setitem__(c, key, obj) ==
    IF ~IsCacheKey(key) THEN Result(c, None, "CacheError")
    ELSE IF ~IsBotoObject(obj) THEN Result(c, None, "CacheError")
    ELSE IF OD_contains(c.od, key) THEN Result(c, None, "ExistsError")
    ELSE LET stored == OD_move_to_end(OD_set(c.od, key, obj), key)
         IN  IF Len(stored) > c.max_size
             THEN Result([c EXCEPT !.od = OD_popitem_first(stored)], None, Ok)
             ELSE Result([c EXCEPT !.od = stored], None, Ok)

LRU__delitem__(c, key) ==
    IF ~OD_contains(c.od, key)
    THEN Result(c, None, "NotFoundError")
    ELSE Result([c EXCEPT !.od = OD_del(@, key)], None, Ok)

\* LRU_get with the bug that a hit does not move the key to the end
LRU_get_no_touch(c, key, default) ==
    IF OD_contains(c.od, key)
    THEN Result(c, OD_get(c.od, key), Ok)
    ELSE Result(c, default, Ok)

LRU_get(c, key, default) ==
    IF OD_contains(c.od, key)
    THEN Result([c EXCEPT !.od = OD_move_to_end(@, key)], OD_get(c.od, key), Ok)
    ELSE Result(c, default, Ok)

\* LRU_pop with the bug that the key is marked as used and the eldest entry leaves
LRU_pop_eldest(c, key) ==
    IF ~OD_contains(c.od, key)
    THEN Result(c, None, "NotFoundError")
    ELSE Result([c EXCEPT !.od = OD_popitem_first(OD_move_to_end(@, key))],
                OD_get(c.od, key), Ok)

LRU_pop(c, key) ==
    IF ~OD_contains(c.od, key)
    THEN Result(c, None, "NotFoundError")
    ELSE Result([c EXCEPT !.od = OD_del(@, key)], OD_get(c.od, key), Ok)

LRU_clear(c) == Result([c EXCEPT !.od = <<>>], None, Ok)

\* LRU_popitem with the bug that it takes the newest entry (last=True)
LRU_popitem_newest(c) ==
    IF c.od = <<>>
    THEN Result(c, None, "NotFoundError")
    ELSE Result([c EXCEPT !.od = SubSeq(@, 1, Len(@) - 1)],
                <<c.od[Len(c.od)].k, c.od[Len(c.od)].v>>, Ok)

LRU_popitem(c) ==
    IF c.od = <<>>
    THEN Result(c, None, "NotFoundError")
    ELSE Result([c EXCEPT !.od = OD_popitem_first(@)], <<c.od[1].k, c.od[1].v>>, Ok)

(***************************************************************************)
(* _BaseLFUCache                                                           *)
(***************************************************************************)
LFU_len(c) == Cardinality(DOMAIN c.map)

\* del self._cache[self._frequencies.pop_least_frequent()]
LFU_evict(c) ==
    LET p == FI_pop_least_frequent(c.frequencies)
    IN  IF p.exc # Ok THEN Result(c, None, p.exc)
        ELSE IF p.key \notin DOMAIN c.map
             THEN Result([c EXCEPT !.frequencies = p.f], None, "KeyError")
             ELSE Result([c EXCEPT !.frequencies = p.f, !.map = MapDel(@, p.key)],
                         p.key, Ok)

RECURSIVE LFU_evict_while_over(_)
LFU_evict_while_over(c) ==
    IF LFU_len(c) > c.max_size
    THEN LET e == LFU_evict(c)
         IN  IF e.exc # Ok THEN Result(e.c, None, e.exc) ELSE LFU_evict_while_over(e.c)
    ELSE Result(c, None, Ok)

LFU_max_size_setter(c, value) ==
    LFU_evict_while_over([c EXCEPT !.max_size = abs(value)])

LFU__getitem__(c, key) ==
    IF key \notin DOMAIN c.map
    THEN Result(c, None, "NotFoundError")
    ELSE Result([c EXCEPT !.frequencies = FI_increment(@, key)], c.map[key], Ok)

\* LFU__setitem__ with the bug that a full cache does not evict (> for >=)
LFU__setitem__no_evict_when_full(c, key, obj) ==
    IF ~IsCacheKey(key) THEN Result(c, None, "CacheError")
    ELSE IF ~IsBotoObject(obj) THEN Result(c, None, "CacheError")
    ELSE IF key \in DOMAIN c.map THEN Result(c, None, "ExistsError")
    ELSE IF c.max_size = 0 THEN Result(c, None, Ok)
    ELSE LET e == IF LFU_len(c) > c.max_size THEN LFU_evict(c) ELSE Result(c, None, Ok)
         IN  IF e.exc # Ok THEN Result(e.c, None, e.exc)
             ELSE Result([e.c EXCEPT !.map = MapSet(@, key, obj),
                                     !.frequencies = FI_insert(@, key)], None, Ok)

LFU__setitem__(c, key, obj) ==
    IF ~IsCacheKey(key) THEN Result(c, None, "CacheError")
    ELSE IF ~IsBotoObject(obj) THEN Result(c, None, "CacheError")
    ELSE IF key \in DOMAIN c.map THEN Result(c, None, "ExistsError")
    ELSE IF c.max_size = 0 THEN Result(c, None, Ok)
    ELSE LET e == IF LFU_len(c) >= c.max_size THEN LFU_evict(c) ELSE Result(c, None, Ok)
         IN  IF e.exc # Ok THEN Result(e.c, None, e.exc)
             ELSE Result([e.c EXCEPT !.map = MapSet(@, key, obj),
                                     !.frequencies = FI_insert(@, key)], None, Ok)

LFU__delitem__(c, key) ==
    IF key \notin DOMAIN c.map
    THEN Result(c, None, "NotFoundError")
    ELSE Result([c EXCEPT !.frequencies = FI_delete(@, key), !.map = MapDel(@, key)],
                None, Ok)

\* LFU_get with the bug that a hit does not count
LFU_get_no_touch(c, key, default) ==
    IF key \notin DOMAIN c.map
    THEN Result(c, default, Ok)
    ELSE Result(c, c.map[key], Ok)

LFU_get(c, key, default) ==
    IF key \notin DOMAIN c.map
    THEN Result(c, default, Ok)
    ELSE Result([c EXCEPT !.frequencies = FI_increment(@, key)], c.map[key], Ok)

\* LFU_pop with the bug that a miss returns None instead of raising
LFU_pop_silent_miss(c, key) ==
    IF key \notin DOMAIN c.map
    THEN Result(c, None, Ok)
    ELSE Result([c EXCEPT !.frequencies = FI_delete(@, key), !.map = MapDel(@, key)],
                c.map[key], Ok)

LFU_pop(c, key) ==
    IF key \notin DOMAIN c.map
    THEN Result(c, None, "NotFoundError")
    ELSE Result([c EXCEPT !.frequencies = FI_delete(@, key), !.map = MapDel(@, key)],
                c.map[key], Ok)

\* LFU_clear with the bug that the frequency index is kept
LFU_clear_keeps_index(c) == Result([c EXCEPT !.map = EmptyMap], None, Ok)

LFU_clear(c) ==
    Result([c EXCEPT !.map = EmptyMap, !.frequencies = _FrequencyIndex], None, Ok)

LFU_popitem(c) ==
    IF DOMAIN c.map = {}
    THEN Result(c, None, "NotFoundError")
    ELSE LET p == FI_pop_least_frequent(c.frequencies)
         IN  IF p.exc # Ok THEN Result(c, None, p.exc)
             ELSE Result([c EXCEPT !.frequencies = p.f, !.map = MapDel(@, p.key)],
                         <<p.key, c.map[p.key]>>, Ok)

(***************************************************************************)
(* The dictionary surface of a cache, whatever its class.                  *)
(***************************************************************************)
max_size_setter(c, value) ==
    IF c.policy = "LRU" THEN LRU_max_size_setter(c, value) ELSE LFU_max_size_setter(c, value)

__getitem__(c, key) ==
    IF c.policy = "LRU" THEN LRU__getitem__(c, key) ELSE LFU__getitem__(c, key)

__setitem__(c, key, obj) ==
    IF c.policy = "LRU" THEN LRU__setitem__(c, key, obj) ELSE LFU__setitem__(c, key, obj)

__delitem__(c, key) ==
    IF c.policy = "LRU" THEN LRU__delitem__(c, key) ELSE LFU__delitem__(c, key)

get(c, key, default) ==
    IF c.policy = "LRU" THEN LRU_get(c, key, default) ELSE LFU_get(c, key, default)

pop(c, key) == IF c.policy = "LRU" THEN LRU_pop(c, key) ELSE LFU_pop(c, key)

clear(c) == IF c.policy = "LRU" THEN LRU_clear(c) ELSE LFU_clear(c)

popitem(c) == IF c.policy = "LRU" THEN LRU_popitem(c) ELSE LFU_popitem(c)

\* keys(): the keys in iteration order
keys(c) == IF c.policy = "LRU" THEN OD_keys(c.od) ELSE FI_iter_keys(c.frequencies)

\* values(): the values in iteration order
values(c) ==
    IF c.policy = "LRU" THEN OD_values(c.od)
    ELSE LET ks == FI_iter_keys(c.frequencies) IN [i \in DOMAIN ks |-> c.map[ks[i]]]

\* items(): the (key, value) pairs in iteration order
items(c) ==
    IF c.policy = "LRU" THEN [i \in DOMAIN c.od |-> <<c.od[i].k, c.od[i].v>>]
    ELSE LET ks == FI_iter_keys(c.frequencies) IN [i \in DOMAIN ks |-> <<ks[i], c.map[ks[i]]>>]

\* __iter__: the tuple the iterator returned runs over
__iter__(c) == IF c.policy = "LRU" THEN OD_keys(c.od) ELSE FI_iter_keys(c.frequencies)

\* __reversed__: the tuple the iterator returned runs over
__reversed__(c) ==
    IF c.policy = "LRU" THEN Reverse(OD_keys(c.od))
    ELSE FI_iter_keys_reversed(c.frequencies)

\* copy(): the new cache object; the cache itself is left as it is
copy(c) ==
    LET new_cache == IF c.policy = "LRU"
                     THEN LRU__init__(<<c.cache_type>>, <<c.max_size>>)
                     ELSE LFU__init__(<<c.cache_type>>, <<c.max_size>>)
    IN  IF c.policy = "LRU"
        THEN [new_cache EXCEPT !.od = c.od]
        ELSE [new_cache EXCEPT !.map = c.map, !.frequencies = FI_copy(c.frequencies)]

\* __len__
len(c) == IF c.policy = "LRU" THEN Len(c.od) ELSE LFU_len(c)

\* __contains__
__contains__(c, key) ==
    IF c.policy = "LRU" THEN OD_contains(c.od, key) ELSE key \in DOMAIN c.map

\* the value stored for a key that is present, read without a touch
Stored(c, key) == IF c.policy = "LRU" THEN OD_get(c.od, key) ELSE c.map[key]

\* the set of keys present
KeySet(c) == IF c.policy = "LRU" THEN Range(OD_keys(c.od)) ELSE DOMAIN c.map

(***************************************************************************)
(* Spec: one cache object, LRU or LFU, used by one caller; every operation *)
(* is one step.                                                            *)
(*   cache    the cache object                                             *)
(*   last     the last call: its name, arguments (key, obj or default,     *)
(*            value assigned to max_size) and outcome, and the keys        *)
(*            that left the cache during it, each with its hits            *)
(*   ranking  observer: the keys present, ranked as the policy is          *)
(*            documented to rank them.  LRU: by the time of the most       *)
(*            recent touch (insertion or hit), oldest first.  LFU: by the  *)
(*            number of hits, and among equal hits by the time of the most *)
(*            recent touch, oldest first                                   *)
(*   hits     observer: per key present in an LFU cache, the hits since    *)
(*            its insertion                                                *)
(*   eldest   observer: the key present that was inserted first, when that *)
(*            is known (NotAKey when it is not)                            *)
(***************************************************************************)
VARIABLES cache, last, ranking, hits, eldest

(***************************************************************************)
(* SpecSession: one Session object, whose client() and resource() are      *)
(* called one after the other.                                             *)
(*   session  the attribute cache of the Session: for each of client and   *)
(*            resource, an LRU and an LFU cache object                     *)
(*   created  the number of objects the boto3 factories have built         *)
(*   calls    the number of calls made                                     *)
(*   scall    the last call: its method, arguments and outcome             *)
(***************************************************************************)
VARIABLES session, created, calls, scall

(***************************************************************************)
(* SpecConc: one cache object (cache) used by several threads.             *)
(*   lock     the RLock _lock of the cache: its owner and its count        *)
(*   frames   per thread, the call it is making                            *)
(*   lin      observer: the cache object as it is if every call so far     *)
(*            happened all at once, at the point where it takes effect     *)
(* A call's frame has the observer fields eret and eexc (what the call     *)
(* yields if it happens all at once) and bare (the call has read or        *)
(* written _cache, _frequencies or _max_size while its thread did not hold *)
(* the lock).                                                              *)
(***************************************************************************)
VARIABLES lock, frames, lin

(***************************************************************************)
(* SpecHeap: the objects a caller holds by reference.                      *)
(*   heap      the objects alive, by address: the cache objects (caches),  *)
(*             their _cache dictionaries (dicts) and their _frequencies    *)
(*             indexes (indexes)                                           *)
(*   refs      the caller's references: orig, the cache a factory has      *)
(*             made, and twin, the copy made of it (NoAddr without one)    *)
(*   view      what the caller has got from keys(), values(), items(),     *)
(*             iter() or reversed(), with the observer field taken: the    *)
(*             sequence it held when it was returned                       *)
(*   registry  the class-level registries of the cache classes             *)
(*   hcall     the last call: its name, arguments and outcome, and the     *)
(*             observer field before: the caches as they were before it    *)
(*   later     the number of calls made since the copy or the snapshot     *)
(***************************************************************************)
VARIABLES heap, refs, view, registry, hcall, later

(***************************************************************************)
(* The state of the specification of the cache keys:                       *)
(*   signatures  two call signatures a and b, and how b was made from a    *)
(*   cachekeys   the cache keys constructed from them, None before         *)
(***************************************************************************)
VARIABLES signatures, cachekeys

vars ==
    <<cache, last, ranking, hits, eldest, session, created, calls, scall, lock, frames, lin,
      heap, refs, view, registry, hcall, later, signatures, cachekeys>>

kvars == <<signatures, cachekeys>>

\* the cache keys of a specification that constructs none of its own
NoKeys == signatures = <<>> /\ cachekeys = <<>>

hvars == <<heap, refs, view, registry, hcall, later>>

\* the objects of a specification that holds its cache by value
NoHeap ==
    /\ heap = <<>> /\ refs = <<>> /\ view = <<>>
    /\ registry = <<>> /\ hcall = <<>> /\ later = FALSE

observers == <<last, ranking, hits, eldest>>

cvars == <<cache, last, ranking, hits, eldest>>

tvars == <<lock, frames, lin>>

\* the threads of a specification that has one caller
NoThreads == lock = <<>> /\ frames = <<>> /\ lin = <<>>

\* the observers of a specification that has none
NoObservers == last = <<>> /\ ranking = <<>> /\ hits = <<>> /\ eldest = NotAKey

svars == <<session, created, calls, scall>>

\* the Session of a specification that has none
NoSession == session = <<>> /\ created = 0 /\ calls = 0 /\ scall = <<>>

\* the cache object of a specification that has none of its own
NoCache == cache = <<>> /\ NoObservers

Keep(s, present) == SelectSeq(s, LAMBDA k : k \in present)

\* a call that touches its key: a successful insertion or a hit
Inserts(op, r) == op = "setitem" /\ r.exc = Ok

Hits(op, key, r) == op \in {"getitem", "get"} /\ r.exc = Ok /\ __contains__(cache, key)

\* the key takes its place in the ranking after a touch that leaves it h[key] hits
Rerank(rank, h, key, policy) ==
    LET rest == KS_del(rank, key)
    IN  IF policy = "LRU"
        THEN Append(rest, key)
        ELSE SelectSeq(rest, LAMBDA x : h[x] <= h[key]) \o <<key>>
                \o SelectSeq(rest, LAMBDA x : h[x] > h[key])

Observe(op, key, obj, value, r) ==
    LET present == KeySet(r.c)
        h == IF Inserts(op, r) THEN MapSet(hits, key, 0)
             ELSE IF Hits(op, key, r) /\ r.c.policy = "LFU"
                  THEN [hits EXCEPT ![key] = @ + 1]
                  ELSE hits
        rank == IF Inserts(op, r) \/ Hits(op, key, r)
                THEN Rerank(ranking, h, key, r.c.policy)
                ELSE ranking
        gone == SelectSeq(ranking, LAMBDA k : k \notin present)
    IN  /\ ranking' = Keep(rank, present)
        /\ hits' = [k \in present |-> h[k]]
        /\ eldest' = IF eldest \in present THEN eldest
                     ELSE IF Cardinality(present) = 1 THEN CHOOSE k \in present : TRUE
                     ELSE NotAKey
        /\ last' = [op |-> op, key |-> key, obj |-> obj, value |-> value,
                    ret |-> r.ret, exc |-> r.exc,
                    removed |-> [i \in DOMAIN gone |-> [k |-> gone[i], hits |-> hits[gone[i]]]]]

Do(op, key, obj, value, result) ==
    \E r \in {result} :
        /\ cache' = r.c
        /\ Observe(op, key, obj, value, r)
        /\ UNCHANGED <<svars, tvars, hvars, kvars>>

RECURSIVE SumOver(_, _)
SumOver(h, S) ==
    IF S = {} THEN 0 ELSE LET k == CHOOSE x \in S : TRUE IN h[k] + SumOver(h, S \ {k})

\* the hits counted for the keys present are at most MaxHits in all
MayTouch(key) ==
    __contains__(cache, key) /\ cache.policy = "LFU" => SumOver(hits, DOMAIN hits) < MaxHits

Init ==
    /\ \E max_size \in OptSizes : cache \in {LRUClientCache(max_size), LFUClientCache(max_size)}
    /\ last = [op |-> "init", key |-> NotAKey, obj |-> None, value |-> 0,
               ret |-> None, exc |-> Ok, removed |-> <<>>]
    /\ ranking = <<>>
    /\ hits = EmptyMap
    /\ eldest = NotAKey
    /\ NoSession
    /\ NoThreads
    /\ NoHeap
    /\ NoKeys

\* cache[key] = obj.  An absent key is set to the object built for it; every
\* other pair of arguments is tried as well.
SetItem ==
    \E key \in Keys \cup {NotAKey} :
        \E obj \in {Obj(key), OtherObj, NotAnObj} :
            /\ key \in Keys /\ ~__contains__(cache, key) /\ obj \in Objs => obj = Obj(key)
            /\ Do("setitem", key, obj, 0, __setitem__(cache, key, obj))

GetItem ==
    \E key \in Keys :
        /\ MayTouch(key)
        /\ Do("getitem", key, None, 0, __getitem__(cache, key))

Get ==
    \E key \in Keys, default \in {None, OtherObj} :
        /\ MayTouch(key)
        /\ Do("get", key, default, 0, get(cache, key, default))

DelItem == \E key \in Keys : Do("delitem", key, None, 0, __delitem__(cache, key))

Pop == \E key \in Keys : Do("pop", key, None, 0, pop(cache, key))

PopItem == Do("popitem", NotAKey, None, 0, popitem(cache))

Clear == Do("clear", NotAKey, None, 0, clear(cache))

SetMaxSize == \E value \in Sizes : Do("max_size", NotAKey, None, value, max_size_setter(cache, value))

Next ==
    \/ SetItem
    \/ GetItem
    \/ Get
    \/ DelItem
    \/ Pop
    \/ PopItem
    \/ Clear
    \/ SetMaxSize

Spec == Init /\ [][Next]_vars

(***************************************************************************)
(* Cache keys.  A call signature is [args: the positional arguments,       *)
(* kwargs: the named arguments as <<name, value>> pairs in the order       *)
(* written].  An argument value is None or a tuple such as <<"s3">>.       *)
(***************************************************************************)
kw_has(kwargs, name) == \E i \in DOMAIN kwargs : kwargs[i][1] = name

kw_get(kwargs, name) == kwargs[CHOOSE i \in DOMAIN kwargs : kwargs[i][1] = name][2]

kw_pop(kwargs, name) == SelectSeq(kwargs, LAMBDA item : item[1] # name)

\* the parameter names in the order of Python's string comparison
NameOrder == <<"api_version", "aws_access_key_id", "aws_secret_access_key",
               "aws_session_token", "config", "endpoint_url", "eviction_policy",
               "max_size", "region_name", "service_name", "use_ssl", "verify">>

NameRank(name) == CHOOSE i \in DOMAIN NameOrder : NameOrder[i] = name

\* as sorted, without the sorting
unsorted(pairs) == pairs

\* sorted(kwargs.items()): the names are distinct, so the names decide
sorted(pairs) ==
    [i \in DOMAIN pairs |->
        pairs[CHOOSE j \in DOMAIN pairs :
                  Cardinality({k \in DOMAIN pairs :
                                   NameRank(pairs[k][1]) < NameRank(pairs[j][1])}) = i - 1]]

\* while _clear_args and _clear_args[-1] is None: _clear_args.pop()
pop_trailing_None(args) ==
    SubSeq(args, 1, Len(args) - Min({n \in 0..Len(args) :
                                         n = Len(args) \/ args[Len(args) - n] # None}))

(***************************************************************************)
(* Python values in a call signature: None; a string <<"s3">>; an integer  *)
(* <<"int", "5">>; <<"dict", pairs>> with the <<key, value>> pairs in      *)
(* insertion order; <<"set", elements>> in iteration order; <<"list", ..>>;*)
(* <<"tuple", ..>>; a botocore Config <<"Config", options>> with its       *)
(* _user_provided_options as <<name, value>> pairs in the order given.     *)
(***************************************************************************)
IsA(value, type) == Len(value) = 2 /\ value[1] = type

\* the strings that are dictionary keys, set elements and values, in the
\* order of Python's string comparison
StringOrder ==
    <<"***", "3", "5", "AKIA1", "AKIA2", "LFU", "a", "aws_access_key_id",
      "aws_secret_access_key", "aws_session_token", "b", "config", "ec2", "endpoint_url",
      "max_attempts", "mode", "proxies", "region_name", "retries", "s3", "standard",
      "us-east-1", "us-west-2">>

StringRank(string) == CHOOSE i \in DOMAIN StringOrder : StringOrder[i] = string

\* sorted(...) of (key, value) tuples with distinct keys
sorted_pairs(pairs) ==
    [i \in DOMAIN pairs |->
        pairs[CHOOSE j \in DOMAIN pairs :
                  Cardinality({k \in DOMAIN pairs :
                                   StringRank(pairs[k][1]) < StringRank(pairs[j][1])}) = i - 1]]

\* sorted(...) of distinct strings
sorted_strings(elements) ==
    [i \in DOMAIN elements |->
        elements[CHOOSE j \in DOMAIN elements :
                     Cardinality({k \in DOMAIN elements :
                                      StringRank(elements[k][1]) < StringRank(elements[j][1])})
                         = i - 1]]

\* _freeze_value: a dict becomes the tuple of its sorted (key, frozen value)
\* tuples, a list or a tuple the tuple of its frozen items, a set the sorted
\* tuple of its frozen items (strings here); everything else is unchanged
RECURSIVE _freeze_value(_)
_freeze_value(value) ==
    CASE IsA(value, "dict") ->
             <<"tuple", [i \in DOMAIN value[2] |->
                            <<"tuple", << <<sorted_pairs(value[2])[i][1]>>,
                                          _freeze_value(sorted_pairs(value[2])[i][2]) >> >>]>>
      [] IsA(value, "list") \/ IsA(value, "tuple") ->
             <<"tuple", [i \in DOMAIN value[2] |-> _freeze_value(value[2][i])]>>
      [] IsA(value, "set") ->
             <<"tuple", sorted_strings([i \in DOMAIN value[2] |-> _freeze_value(value[2][i])])>>
      [] OTHER -> value

\* _config_cache_key: the frozen _user_provided_options of the Config
_config_cache_key(config) ==
    IF config = None THEN None ELSE _freeze_value(<<"dict", config[2]>>)

\* _format_label_value: "Config(k=repr(v), ...)" with the options sorted by
\* name for a Config, repr(value) for everything else
_format_label_value(value) ==
    IF IsA(value, "Config")
    THEN <<"Config", [i \in DOMAIN value[2] |->
                         <<sorted_pairs(value[2])[i][1],
                           <<"repr", sorted_pairs(value[2])[i][2]>> >>]>>
    ELSE <<"repr", value>>

sensitive_keys == {"aws_access_key_id", "aws_secret_access_key", "aws_session_token"}

\* signature(Session.client).parameters and signature(Session.resource)
\* .parameters of boto3, without self
parameter_names(cache_type) ==
    IF cache_type = "client"
    THEN <<"service_name", "region_name", "api_version", "use_ssl", "verify", "endpoint_url",
           "aws_access_key_id", "aws_secret_access_key", "aws_session_token", "config",
           "aws_account_id">>
    ELSE <<"service_name", "region_name", "api_version", "use_ssl", "verify", "endpoint_url",
           "aws_access_key_id", "aws_secret_access_key", "aws_session_token", "config">>

\* the positions of the parameters that may hold credentials (the first
\* argument has position 1 here)
sensitive_arg_positions(cache_type) ==
    {i \in DOMAIN parameter_names(cache_type) : parameter_names(cache_type)[i] \in sensitive_keys}

\* as moved_args, with a service_name given by name left out of the
\* positional arguments
unmoved_args(args0, kwargs0) == args0

\* args = (kwargs.pop("service_name"),) + args when service_name is named
moved_args(args0, kwargs0) ==
    IF kw_has(kwargs0, "service_name")
    THEN <<kw_get(kwargs0, "service_name")>> \o args0
    ELSE args0

\* as popped_kwargs, with eviction_policy and max_size left in
unpopped_kwargs(kwargs0) == kw_pop(kwargs0, "service_name")

\* the named arguments without service_name, eviction_policy and max_size
popped_kwargs(kwargs0) ==
    kw_pop(kw_pop(kw_pop(kwargs0, "service_name"), "eviction_policy"), "max_size")

(***************************************************************************)
(* A label, which the code joins with ", ", is the sequence of its parts:  *)
(* <<"repr", a>> for repr(a), <<"kw", k, text>> for "k=text" where text is *)
(* <<"text", "***">> or what _format_label_value gives.                    *)
(***************************************************************************)
_label(cache_type, args, kwargs) ==
    [i \in DOMAIN args |-> <<"repr", args[i]>>]
        \o [i \in DOMAIN kwargs |->
               <<"kw", sorted(kwargs)[i][1], _format_label_value(sorted(kwargs)[i][2])>>]

\* as label, with the credentials given by name shown
label_named_shown(cache_type, args, kwargs) ==
    [i \in DOMAIN args |->
        IF i \notin sensitive_arg_positions(cache_type)
        THEN <<"repr", args[i]>>
        ELSE <<"repr", <<"***">> >>]
        \o [i \in DOMAIN kwargs |->
               <<"kw", sorted(kwargs)[i][1], _format_label_value(sorted(kwargs)[i][2])>>]

label(cache_type, args, kwargs) ==
    [i \in DOMAIN args |->
        IF i \notin sensitive_arg_positions(cache_type)
        THEN <<"repr", args[i]>>
        ELSE <<"repr", <<"***">> >>]
        \o [i \in DOMAIN kwargs |->
               IF sorted(kwargs)[i][1] \notin sensitive_keys
               THEN <<"kw", sorted(kwargs)[i][1], _format_label_value(sorted(kwargs)[i][2])>>
               ELSE <<"kw", sorted(kwargs)[i][1], <<"text", "***">> >>]

_clear_args(cache_type, args) ==
    pop_trailing_None([i \in DOMAIN args |->
                          IF IsA(args[i], "Config") THEN _config_cache_key(args[i])
                          ELSE args[i]])

_args(cache_type, args) ==
    pop_trailing_None([i \in DOMAIN args |->
                          IF IsA(args[i], "Config") THEN _config_cache_key(args[i])
                          ELSE IF i \in sensitive_arg_positions(cache_type) THEN <<"***">>
                          ELSE args[i]])

\* kwargs with the Config frozen and the None values removed
_clear_kwargs(kwargs) ==
    SelectSeq([i \in DOMAIN kwargs |->
                  IF kwargs[i][1] = "config" /\ kwargs[i][2] # None
                  THEN <<"config", _config_cache_key(kwargs[i][2])>>
                  ELSE kwargs[i]],
              LAMBDA item : item[2] # None)

_kwargs(kwargs) ==
    [i \in DOMAIN _clear_kwargs(kwargs) |->
        IF _clear_kwargs(kwargs)[i][1] \notin sensitive_keys
        THEN _clear_kwargs(kwargs)[i]
        ELSE <<_clear_kwargs(kwargs)[i][1], <<"***">> >>]

\* self.key = (tuple(_args), tuple(sorted(_kwargs.items())))
public_key(cache_type, args0, kwargs0) ==
    <<_args(cache_type, moved_args(args0, kwargs0)), sorted(_kwargs(popped_kwargs(kwargs0)))>>

\* self._key = (tuple(_clear_args), tuple(sorted(_clear_kwargs.items())))
clear_key(cache_type, args0, kwargs0) ==
    <<_clear_args(cache_type, moved_args(args0, kwargs0)),
      sorted(_clear_kwargs(popped_kwargs(kwargs0)))>>

\* _create: the labels and the keys of a cache key
_create(cache_type, args0, kwargs0) ==
    [cache_type |-> cache_type,
     label |-> label(cache_type, moved_args(args0, kwargs0), popped_kwargs(kwargs0)),
     _label |-> _label(cache_type, moved_args(args0, kwargs0), popped_kwargs(kwargs0)),
     key |-> public_key(cache_type, args0, kwargs0),
     _key |-> clear_key(cache_type, args0, kwargs0)]

\* hash(value) of None, a string, an integer or a tuple of them: the hash of
\* a tuple is made of the hashes of its items in their order, and kept as a
\* residue modulo 65521
RECURSIVE hash(_)
RECURSIVE hash_items(_, _)
hash_items(elements, n) ==
    IF n = 0 THEN 1 ELSE (31 * hash_items(elements, n - 1) + hash(elements[n])) % 65521

hash(value) ==
    CASE value = None -> 0
      [] Len(value) = 1 -> StringRank(value[1])
      [] IsA(value, "int") -> Len(StringOrder) + StringRank(value[2])
      [] IsA(value, "tuple") -> hash_items(value[2], Len(value[2]))

\* a key (args, named) as the tuple of tuples it is in Python
as_tuple(key) ==
    <<"tuple", << <<"tuple", key[1]>>,
                  <<"tuple", [i \in DOMAIN key[2] |->
                                 <<"tuple", << <<key[2][i][1]>>, key[2][i][2] >> >>]>> >> >>

\* as __hash__, of the public key
__hash__public(self) == hash(as_tuple(self.key))

\* __hash__: hash(self._key)
__hash__(self) == hash(as_tuple(self._key))

\* as __eq__, of the public keys
__eq__public(self, other) == other.cache_type = self.cache_type /\ self.key = other.key

\* __eq__: isinstance(other, <the class of self>) and self._key == other._key
__eq__(self, other) == other.cache_type = self.cache_type /\ self._key = other._key

\* __str__: self.label
__str__(self) == self.label

\* cache_type.capitalize()
capitalize(cache_type) == IF cache_type = "client" THEN "Client" ELSE "Resource"

\* __repr__: f"{cache_type.capitalize()}CacheKey({cache_type}({label}))"
__repr__(self) ==
    <<capitalize(self.cache_type), "CacheKey(", self.cache_type, "(", self.label, "))">>

\* the call signatures tried
Services == {<<"s3">>}

Regions == {<<"us-east-1">>}

Signatures ==
    {[args |-> <<service_name>>, kwargs |-> <<>>] : service_name \in Services}
    \cup {[args |-> <<>>, kwargs |-> << <<"service_name", service_name>> >>] :
             service_name \in Services}
    \cup {[args |-> <<service_name, None>>, kwargs |-> <<>>] : service_name \in Services}
    \cup {[args |-> <<service_name>>, kwargs |-> << <<"region_name", region_name>> >>] :
             service_name \in Services, region_name \in Regions}

\* The _key values of the signatures tried, numbered: a cache key is held in
\* a cache as the number of its _key, positive for a ClientCacheKey and
\* negative for a ResourceCacheKey, a ClientCacheKey never being equal to a
\* ResourceCacheKey.
RECURSIVE SetToSeq(_)
SetToSeq(S) ==
    IF S = {} THEN <<>> ELSE LET x == CHOOSE y \in S : TRUE IN <<x>> \o SetToSeq(S \ {x})

\* the i-th of the call signatures that differ in region_name
Request(i) == [args |-> << <<"s3">> >>, kwargs |-> << <<"region_name", <<"region", i>>>> >>]

Requests == {Request(i) : i \in 1..MaxRequests}

KeyTable ==
    SetToSeq({clear_key("client", sig.args, sig.kwargs) : sig \in Signatures \cup Requests})

NumberOf(_key) == CHOOSE i \in DOMAIN KeyTable : KeyTable[i] = _key

ClientCacheKey(sig) == NumberOf(clear_key("client", sig.args, sig.kwargs))

ResourceCacheKey(sig) == 0 - NumberOf(clear_key("resource", sig.args, sig.kwargs))

(***************************************************************************)
(* The Session.                                                            *)
(***************************************************************************)
SessionClientCache == [LRU |-> LRUClientCache(None), LFU |-> LFUClientCache(None)]

SessionResourceCache == [LRU |-> LRUResourceCache(None), LFU |-> LFUResourceCache(None)]

SessionCache == [client |-> SessionClientCache, resource |-> SessionResourceCache]

\* get_args(EvictionPolicy)
EvictionPolicy == {"LRU", "LFU"}

\* the eviction_policy arguments tried: None, or <<p>> for the string p
OptPolicies == {None, <<"LRU">>, <<"LFU">>, <<"FIFO">>}

\* the max_size arguments tried
SessionSizes == {None} \cup {<<v>> : v \in (0 - MaxSessionSize)..MaxSessionSize}

\* super().client(...) and super().resource(...): the n-th object boto3 builds
boto3_client(n) == <<"obj", "client", n>>

boto3_resource(n) == <<"obj", "resource", n>>

\* What a call of Session.client / Session.resource yields: the attribute
\* cache afterwards, the number of objects built, the key, whether the
\* factory was called, and the value returned or the error raised.
Outcome(s, n, key, built, ret, exc) ==
    [s |-> s, created |-> n, key |-> key, built |-> built, ret |-> ret, exc |-> exc]

\* Session_client with the bug that the factory is called whether or not the
\* key is in the cache
Session_client_always_builds(s, n, sig, eviction_policy, max_size) ==
    IF ~(eviction_policy = None \/ eviction_policy[1] \in EvictionPolicy)
    THEN Outcome(s, n, NotAKey, FALSE, None, "CacheError")
    ELSE
        LET policy == IF eviction_policy = None THEN "LRU" ELSE eviction_policy[1]
            key == ClientCacheKey(sig)
            miss == TRUE
            r1 == IF miss
                  THEN __setitem__(s["client"][policy], key, boto3_client(n + 1))
                  ELSE Result(s["client"][policy], None, Ok)
            n1 == IF miss THEN n + 1 ELSE n
            r2 == IF max_size # None /\ max_size[1] # r1.c.max_size
                  THEN max_size_setter(r1.c, max_size[1])
                  ELSE Result(r1.c, None, Ok)
            r3 == __getitem__(r2.c, key)
        IN  IF r1.exc # Ok
            THEN Outcome([s EXCEPT !["client"][policy] = r1.c], n1, key, miss, None, r1.exc)
            ELSE Outcome([s EXCEPT !["client"][policy] = r3.c], n1, key, miss, r3.ret, r3.exc)

\* Session_client with the bug that max_size is not assigned to the cache
Session_client_keeps_size(s, n, sig, eviction_policy, max_size) ==
    IF ~(eviction_policy = None \/ eviction_policy[1] \in EvictionPolicy)
    THEN Outcome(s, n, NotAKey, FALSE, None, "CacheError")
    ELSE
        LET policy == IF eviction_policy = None THEN "LRU" ELSE eviction_policy[1]
            key == ClientCacheKey(sig)
            miss == ~__contains__(s["client"][policy], key)
            r1 == IF miss
                  THEN __setitem__(s["client"][policy], key, boto3_client(n + 1))
                  ELSE Result(s["client"][policy], None, Ok)
            n1 == IF miss THEN n + 1 ELSE n
            r3 == __getitem__(r1.c, key)
        IN  IF r1.exc # Ok
            THEN Outcome([s EXCEPT !["client"][policy] = r1.c], n1, key, miss, None, r1.exc)
            ELSE Outcome([s EXCEPT !["client"][policy] = r3.c], n1, key, miss, r3.ret, r3.exc)

\* Session_client with the bug that the LFU cache is written through to the
\* LRU cache as well
Session_client_one_cache(s, n, sig, eviction_policy, max_size) ==
    IF ~(eviction_policy = None \/ eviction_policy[1] \in EvictionPolicy)
    THEN Outcome(s, n, NotAKey, FALSE, None, "CacheError")
    ELSE
        LET policy == IF eviction_policy = None THEN "LRU" ELSE eviction_policy[1]
            key == ClientCacheKey(sig)
            miss == ~__contains__(s["client"][policy], key)
            r1 == IF miss
                  THEN __setitem__(s["client"][policy], key, boto3_client(n + 1))
                  ELSE Result(s["client"][policy], None, Ok)
            n1 == IF miss THEN n + 1 ELSE n
            r2 == IF max_size # None /\ max_size[1] # r1.c.max_size
                  THEN max_size_setter(r1.c, max_size[1])
                  ELSE Result(r1.c, None, Ok)
            r3 == __getitem__(r2.c, key)
            both == [s EXCEPT !["client"]["LRU"] =
                                  IF policy = "LFU" /\ miss /\ ~__contains__(@, key)
                                  THEN __setitem__(@, key, boto3_client(n + 1)).c
                                  ELSE @]
        IN  IF r1.exc # Ok
            THEN Outcome([both EXCEPT !["client"][policy] = r1.c], n1, key, miss, None, r1.exc)
            ELSE Outcome([both EXCEPT !["client"][policy] = r3.c], n1, key, miss, r3.ret, r3.exc)

Session_client(s, n, sig, eviction_policy, max_size) ==
    IF ~(eviction_policy = None \/ eviction_policy[1] \in EvictionPolicy)
    THEN Outcome(s, n, NotAKey, FALSE, None, "CacheError")
    ELSE
        LET policy == IF eviction_policy = None THEN "LRU" ELSE eviction_policy[1]
            key == ClientCacheKey(sig)
            miss == ~__contains__(s["client"][policy], key)
            r1 == IF miss
                  THEN __setitem__(s["client"][policy], key, boto3_client(n + 1))
                  ELSE Result(s["client"][policy], None, Ok)
            n1 == IF miss THEN n + 1 ELSE n
            r2 == IF max_size # None /\ max_size[1] # r1.c.max_size
                  THEN max_size_setter(r1.c, max_size[1])
                  ELSE Result(r1.c, None, Ok)
            r3 == __getitem__(r2.c, key)
        IN  IF r1.exc # Ok
            THEN Outcome([s EXCEPT !["client"][policy] = r1.c], n1, key, miss, None, r1.exc)
            ELSE Outcome([s EXCEPT !["client"][policy] = r3.c], n1, key, miss, r3.ret, r3.exc)

Session_resource(s, n, sig, eviction_policy, max_size) ==
    IF ~(eviction_policy = None \/ eviction_policy[1] \in EvictionPolicy)
    THEN Outcome(s, n, NotAKey, FALSE, None, "CacheError")
    ELSE
        LET policy == IF eviction_policy = None THEN "LRU" ELSE eviction_policy[1]
            key == ResourceCacheKey(sig)
            miss == ~__contains__(s["resource"][policy], key)
            r1 == IF miss
                  THEN __setitem__(s["resource"][policy], key, boto3_resource(n + 1))
                  ELSE Result(s["resource"][policy], None, Ok)
            n1 == IF miss THEN n + 1 ELSE n
            r2 == IF max_size # None /\ max_size[1] # r1.c.max_size
                  THEN max_size_setter(r1.c, max_size[1])
                  ELSE Result(r1.c, None, Ok)
            r3 == __getitem__(r2.c, key)
        IN  IF r1.exc # Ok
            THEN Outcome([s EXCEPT !["resource"][policy] = r1.c], n1, key, miss, None, r1.exc)
            ELSE Outcome([s EXCEPT !["resource"][policy] = r3.c], n1, key, miss, r3.ret, r3.exc)

InitSession ==
    /\ session = SessionCache
    /\ created = 0
    /\ calls = 0
    /\ scall = [method |-> "init", sig |-> None, eviction_policy |-> None, max_size |-> None,
                key |-> NotAKey, built |-> FALSE, ret |-> None, exc |-> Ok]
    /\ NoCache
    /\ NoThreads
    /\ NoHeap
    /\ NoKeys

SessionDo(method, sig, eviction_policy, max_size, outcome) ==
    \E o \in {outcome} :
        /\ session' = o.s
        /\ created' = o.created
        /\ calls' = calls + 1
        /\ scall' = [method |-> method, sig |-> sig, eviction_policy |-> eviction_policy,
                     max_size |-> max_size, key |-> o.key, built |-> o.built,
                     ret |-> o.ret, exc |-> o.exc]
        /\ UNCHANGED <<cvars, tvars, hvars, kvars>>

\* the calls made are at most MaxCalls
MayCall == calls < MaxCalls

Client ==
    \E sig \in Signatures, eviction_policy \in OptPolicies, max_size \in SessionSizes :
        /\ MayCall
        /\ SessionDo("client", sig, eviction_policy, max_size,
                     Session_client(session, created, sig, eviction_policy, max_size))

Resource ==
    \E sig \in Signatures, eviction_policy \in OptPolicies, max_size \in SessionSizes :
        /\ MayCall
        /\ SessionDo("resource", sig, eviction_policy, max_size,
                     Session_resource(session, created, sig, eviction_policy, max_size))

NextSession ==
    \/ Client
    \/ Resource

SpecSession == InitSession /\ [][NextSession]_vars

(***************************************************************************)
(* SpecRequests: a Session asked for objects of call signatures that       *)
(* differ from one another, max_size never given.  The caller asks one     *)
(* cache after the other: it turns to a cache it has not used yet, or      *)
(* stays with the cache of its last call.                                  *)
(***************************************************************************)
\* the cache of the method and the eviction policy is the one of the last
\* call, or was not used yet
InTurn(method, eviction_policy) ==
    LET policy == IF eviction_policy = None THEN "LRU" ELSE eviction_policy[1]
    IN  \/ len(session[method][policy]) = 0
        \/ /\ scall.method = method
           /\ policy = (IF scall.eviction_policy = None THEN "LRU"
                        ELSE scall.eviction_policy[1])

\* the key of the i-th signature in the caches of a method
RequestKey(method, i) ==
    IF method = "client" THEN ClientCacheKey(Request(i)) ELSE ResourceCacheKey(Request(i))

\* the first of the signatures that was not yet requested of the cache c
\* (the signature requested last is in the cache)
NextRequest(method, c) ==
    CHOOSE i \in 1..(MaxRequests + 1) :
        /\ \A j \in i..MaxRequests : ~__contains__(c, RequestKey(method, j))
        /\ i > 1 => __contains__(c, RequestKey(method, i - 1))

\* session.client("s3", region_name=...) with a region not asked for before
RequestClient ==
    \E eviction_policy \in {None, <<"LRU">>, <<"LFU">>} :
        \E i \in {NextRequest("client",
                               session["client"][IF eviction_policy = None THEN "LRU"
                                                 ELSE eviction_policy[1]])} :
            /\ calls < MaxRequests
            /\ i <= MaxRequests
            /\ InTurn("client", eviction_policy)
            /\ SessionDo("client", Request(i), eviction_policy, None,
                         Session_client(session, created, Request(i), eviction_policy, None))

\* session.resource("s3", region_name=...) with a region not asked for before
RequestResource ==
    \E eviction_policy \in {None, <<"LRU">>, <<"LFU">>} :
        \E i \in {NextRequest("resource",
                               session["resource"][IF eviction_policy = None THEN "LRU"
                                                   ELSE eviction_policy[1]])} :
            /\ calls < MaxRequests
            /\ i <= MaxRequests
            /\ InTurn("resource", eviction_policy)
            /\ SessionDo("resource", Request(i), eviction_policy, None,
                         Session_resource(session, created, Request(i), eviction_policy, None))

NextRequests ==
    \/ RequestClient
    \/ RequestResource

SpecRequests == InitSession /\ [][NextRequests]_vars

(***************************************************************************)
(* SpecConc: one cache object used by the threads of Threads, each of      *)
(* which makes one call.  A call is executed statement by statement; the   *)
(* body of every method but the max_size getter is "with self._lock:".     *)
(* A frame is a thread's call: its method and arguments, the statement to  *)
(* execute next (pc), the local variable of the method (tmp), the value    *)
(* returned or the error raised, and what the call is expected to yield    *)
(* (eret, eexc) if it happens all at once at the point where it takes      *)
(* effect.  pc is "idle" before the call, "acq" at the with statement,     *)
(* "s1", "s2", ... at the statements of the body, "done" after the return. *)
(* In a call of get, obj is the default; in a call of pop, the local       *)
(* variable obj is kept in ret.                                            *)
(***************************************************************************)
Threads == {"a", "b"}

NoThread == "none"

ConcKeys == 1..NumConcKeys

ConcSizes == 0..NumConcKeys

\* the object a caller has built for a key
ObjOf(key, who) == <<"obj", key, who>>

Call(op, key, obj, value) ==
    [op |-> op, key |-> key, obj |-> obj, value |-> value, pc |-> "acq", tmp |-> NotAKey,
     ret |-> None, exc |-> Ok, eret |-> None, eexc |-> Ok, bare |-> FALSE]

Idle == [Call("none", NotAKey, None, 0) EXCEPT !.pc = "idle"]

Goto(fr, pc) == [fr EXCEPT !.pc = pc]

Return(fr, ret) == [fr EXCEPT !.pc = "done", !.ret = ret]

Raise(fr, exc) == [fr EXCEPT !.pc = "done", !.exc = exc]

Stepped(c, fr) == [c |-> c, fr |-> fr]

\* the max_size property: return self._max_size
max_size(c) == Result(c, c.max_size, Ok)

\* the statements of the methods of _BaseLRUCache
LRU_step(c, fr) ==
    LET key == fr.key
        present == OD_contains(c.od, key)
    IN  CASE fr.op = "setitem" /\ fr.pc = "s1" ->
                 IF present
                 THEN Stepped(c, Raise(fr, "ExistsError"))
                 ELSE Stepped([c EXCEPT !.od = OD_set(@, key, fr.obj)], Goto(fr, "s2"))
          [] fr.op = "setitem" /\ fr.pc = "s2" ->
                 IF present
                 THEN Stepped([c EXCEPT !.od = OD_move_to_end(@, key)], Goto(fr, "s3"))
                 ELSE Stepped(c, Raise(fr, "KeyError"))
          [] fr.op = "setitem" /\ fr.pc = "s3" ->
                 IF Len(c.od) > c.max_size
                 THEN Stepped([c EXCEPT !.od = OD_popitem_first(@)], Return(fr, None))
                 ELSE Stepped(c, Return(fr, None))
          [] fr.op = "getitem" /\ fr.pc = "s1" ->
                 IF present
                 THEN Stepped([c EXCEPT !.od = OD_move_to_end(@, key)], Goto(fr, "s2"))
                 ELSE Stepped(c, Raise(fr, "NotFoundError"))
          [] fr.op = "getitem" /\ fr.pc = "s2" ->
                 IF present
                 THEN Stepped(c, Return(fr, OD_get(c.od, key)))
                 ELSE Stepped(c, Raise(fr, "KeyError"))
          [] fr.op = "delitem" /\ fr.pc = "s1" ->
                 IF present
                 THEN Stepped(c, Goto(fr, "s2"))
                 ELSE Stepped(c, Raise(fr, "NotFoundError"))
          [] fr.op = "delitem" /\ fr.pc = "s2" ->
                 IF present
                 THEN Stepped([c EXCEPT !.od = OD_del(@, key)], Return(fr, None))
                 ELSE Stepped(c, Raise(fr, "KeyError"))
          [] fr.op = "get" /\ fr.pc = "s1" ->
                 IF present
                 THEN Stepped([c EXCEPT !.od = OD_move_to_end(@, key)], Goto(fr, "s2"))
                 ELSE Stepped(c, Goto(fr, "s2"))
          [] fr.op = "get" /\ fr.pc = "s2" ->
                 Stepped(c, Return(fr, IF present THEN OD_get(c.od, key) ELSE fr.obj))
          [] fr.op = "pop" /\ fr.pc = "s1" ->
                 IF present
                 THEN Stepped(c, [fr EXCEPT !.pc = "s2", !.ret = OD_get(c.od, key)])
                 ELSE Stepped(c, Raise(fr, "NotFoundError"))
          [] fr.op = "pop" /\ fr.pc = "s2" ->
                 IF present
                 THEN Stepped([c EXCEPT !.od = OD_del(@, key)], Return(fr, fr.ret))
                 ELSE Stepped(c, Raise(fr, "KeyError"))
          [] fr.op = "contains" /\ fr.pc = "s1" -> Stepped(c, Return(fr, present))
          [] fr.op = "len" /\ fr.pc = "s1" -> Stepped(c, Return(fr, Len(c.od)))
          [] fr.op = "keys" /\ fr.pc = "s1" -> Stepped(c, Return(fr, OD_keys(c.od)))
          [] fr.op = "values" /\ fr.pc = "s1" -> Stepped(c, Return(fr, OD_values(c.od)))
          [] fr.op = "items" /\ fr.pc = "s1" -> Stepped(c, Return(fr, items(c)))
          [] fr.op = "iter" /\ fr.pc = "s1" -> Stepped(c, Return(fr, OD_keys(c.od)))
          [] fr.op = "reversed" /\ fr.pc = "s1" ->
                 Stepped(c, Return(fr, Reverse(OD_keys(c.od))))
          [] fr.op = "copy" /\ fr.pc = "s1" -> Stepped(c, Return(fr, copy(c)))
          [] fr.op = "popitem" /\ fr.pc = "s1" ->
                 IF c.od = <<>>
                 THEN Stepped(c, Raise(fr, "NotFoundError"))
                 ELSE Stepped(c, Goto(fr, "s2"))
          [] fr.op = "popitem" /\ fr.pc = "s2" ->
                 IF c.od = <<>>
                 THEN Stepped(c, Raise(fr, "KeyError"))
                 ELSE Stepped([c EXCEPT !.od = OD_popitem_first(@)],
                              Return(fr, <<c.od[1].k, c.od[1].v>>))
          [] fr.op = "clear" /\ fr.pc = "s1" ->
                 Stepped([c EXCEPT !.od = <<>>], Return(fr, None))
          [] fr.op = "max_size" /\ fr.pc = "s1" ->
                 Stepped([c EXCEPT !.max_size = abs(fr.value)], Goto(fr, "s2"))
          [] fr.op = "max_size" /\ fr.pc = "s2" ->
                 IF Len(c.od) > c.max_size
                 THEN Stepped([c EXCEPT !.od = OD_popitem_first(@)], fr)
                 ELSE Stepped(c, Return(fr, None))

\* self._frequencies.pop_least_frequent(), the key kept in a local variable
LFU_step_pop_least_frequent(c, fr, pc) ==
    LET p == FI_pop_least_frequent(c.frequencies)
    IN  IF p.exc # Ok
        THEN Stepped(c, Raise(fr, p.exc))
        ELSE Stepped([c EXCEPT !.frequencies = p.f], [fr EXCEPT !.pc = pc, !.tmp = p.key])

\* the statements of the methods of _BaseLFUCache
LFU_step(c, fr) ==
    LET key == fr.key
        present == key \in DOMAIN c.map
        indexed == key \in DOMAIN c.frequencies.key_to_node
    IN  CASE fr.op = "setitem" /\ fr.pc = "s1" ->
                 IF present THEN Stepped(c, Raise(fr, "ExistsError"))
                 ELSE IF c.max_size = 0 THEN Stepped(c, Return(fr, None))
                 ELSE IF LFU_len(c) >= c.max_size THEN Stepped(c, Goto(fr, "s2"))
                 ELSE Stepped(c, Goto(fr, "s4"))
          [] fr.op = "setitem" /\ fr.pc = "s2" -> LFU_step_pop_least_frequent(c, fr, "s3")
          [] fr.op = "setitem" /\ fr.pc = "s3" ->
                 IF fr.tmp \in DOMAIN c.map
                 THEN Stepped([c EXCEPT !.map = MapDel(@, fr.tmp)], Goto(fr, "s4"))
                 ELSE Stepped(c, Raise(fr, "KeyError"))
          [] fr.op = "setitem" /\ fr.pc = "s4" ->
                 Stepped([c EXCEPT !.map = MapSet(@, key, fr.obj)], Goto(fr, "s5"))
          [] fr.op = "setitem" /\ fr.pc = "s5" ->
                 Stepped([c EXCEPT !.frequencies = FI_insert(@, key)], Return(fr, None))
          [] fr.op = "getitem" /\ fr.pc = "s1" ->
                 IF present
                 THEN Stepped(c, Goto(fr, "s2"))
                 ELSE Stepped(c, Raise(fr, "NotFoundError"))
          [] fr.op = "getitem" /\ fr.pc = "s2" ->
                 IF indexed
                 THEN Stepped([c EXCEPT !.frequencies = FI_increment(@, key)], Goto(fr, "s3"))
                 ELSE Stepped(c, Raise(fr, "KeyError"))
          [] fr.op = "getitem" /\ fr.pc = "s3" ->
                 IF present
                 THEN Stepped(c, Return(fr, c.map[key]))
                 ELSE Stepped(c, Raise(fr, "KeyError"))
          [] fr.op = "delitem" /\ fr.pc = "s1" ->
                 IF present
                 THEN Stepped(c, Goto(fr, "s2"))
                 ELSE Stepped(c, Raise(fr, "NotFoundError"))
          [] fr.op = "delitem" /\ fr.pc = "s2" ->
                 IF indexed
                 THEN Stepped([c EXCEPT !.frequencies = FI_delete(@, key)], Goto(fr, "s3"))
                 ELSE Stepped(c, Raise(fr, "KeyError"))
          [] fr.op = "delitem" /\ fr.pc = "s3" ->
                 IF present
                 THEN Stepped([c EXCEPT !.map = MapDel(@, key)], Return(fr, None))
                 ELSE Stepped(c, Raise(fr, "KeyError"))
          [] fr.op = "get" /\ fr.pc = "s1" ->
                 IF present
                 THEN Stepped(c, Goto(fr, "s2"))
                 ELSE Stepped(c, Return(fr, fr.obj))
          [] fr.op = "get" /\ fr.pc = "s2" ->
                 IF indexed
                 THEN Stepped([c EXCEPT !.frequencies = FI_increment(@, key)], Goto(fr, "s3"))
                 ELSE Stepped(c, Raise(fr, "KeyError"))
          [] fr.op = "get" /\ fr.pc = "s3" ->
                 IF present
                 THEN Stepped(c, Return(fr, c.map[key]))
                 ELSE Stepped(c, Raise(fr, "KeyError"))
          [] fr.op = "pop" /\ fr.pc = "s1" ->
                 IF present
                 THEN Stepped(c, [fr EXCEPT !.pc = "s2", !.ret = c.map[key]])
                 ELSE Stepped(c, Raise(fr, "NotFoundError"))
          [] fr.op = "pop" /\ fr.pc = "s2" ->
                 IF indexed
                 THEN Stepped([c EXCEPT !.frequencies = FI_delete(@, key)], Goto(fr, "s3"))
                 ELSE Stepped(c, Raise(fr, "KeyError"))
          [] fr.op = "pop" /\ fr.pc = "s3" ->
                 IF present
                 THEN Stepped([c EXCEPT !.map = MapDel(@, key)], Return(fr, fr.ret))
                 ELSE Stepped(c, Raise(fr, "KeyError"))
          [] fr.op = "contains" /\ fr.pc = "s1" -> Stepped(c, Return(fr, present))
          [] fr.op = "len" /\ fr.pc = "s1" -> Stepped(c, Return(fr, LFU_len(c)))
          [] fr.op = "keys" /\ fr.pc = "s1" ->
                 Stepped(c, Return(fr, FI_iter_keys(c.frequencies)))
          [] fr.op = "values" /\ fr.pc = "s1" -> Stepped(c, Return(fr, values(c)))
          [] fr.op = "items" /\ fr.pc = "s1" -> Stepped(c, Return(fr, items(c)))
          [] fr.op = "iter" /\ fr.pc = "s1" ->
                 Stepped(c, Return(fr, FI_iter_keys(c.frequencies)))
          [] fr.op = "reversed" /\ fr.pc = "s1" ->
                 Stepped(c, Return(fr, FI_iter_keys_reversed(c.frequencies)))
          [] fr.op = "copy" /\ fr.pc = "s1" -> Stepped(c, Return(fr, copy(c)))
          [] fr.op = "popitem" /\ fr.pc = "s1" ->
                 IF DOMAIN c.map = {}
                 THEN Stepped(c, Raise(fr, "NotFoundError"))
                 ELSE Stepped(c, Goto(fr, "s2"))
          [] fr.op = "popitem" /\ fr.pc = "s2" -> LFU_step_pop_least_frequent(c, fr, "s3")
          [] fr.op = "popitem" /\ fr.pc = "s3" ->
                 IF fr.tmp \in DOMAIN c.map
                 THEN Stepped([c EXCEPT !.map = MapDel(@, fr.tmp)],
                              Return(fr, <<fr.tmp, c.map[fr.tmp]>>))
                 ELSE Stepped(c, Raise(fr, "KeyError"))
          [] fr.op = "clear" /\ fr.pc = "s1" ->
                 Stepped([c EXCEPT !.map = EmptyMap], Goto(fr, "s2"))
          [] fr.op = "clear" /\ fr.pc = "s2" ->
                 Stepped([c EXCEPT !.frequencies = _FrequencyIndex], Return(fr, None))
          [] fr.op = "max_size" /\ fr.pc = "s1" ->
                 Stepped([c EXCEPT !.max_size = abs(fr.value)], Goto(fr, "s2"))
          [] fr.op = "max_size" /\ fr.pc = "s2" ->
                 IF LFU_len(c) > c.max_size
                 THEN Stepped(c, Goto(fr, "s3"))
                 ELSE Stepped(c, Return(fr, None))
          [] fr.op = "max_size" /\ fr.pc = "s3" -> LFU_step_pop_least_frequent(c, fr, "s4")
          [] fr.op = "max_size" /\ fr.pc = "s4" ->
                 IF fr.tmp \in DOMAIN c.map
                 THEN Stepped([c EXCEPT !.map = MapDel(@, fr.tmp)], Goto(fr, "s2"))
                 ELSE Stepped(c, Raise(fr, "KeyError"))

step(c, fr) == IF c.policy = "LRU" THEN LRU_step(c, fr) ELSE LFU_step(c, fr)

\* the whole call at once
Atomic(c, fr) ==
    CASE fr.op = "setitem" -> __setitem__(c, fr.key, fr.obj)
      [] fr.op = "getitem" -> __getitem__(c, fr.key)
      [] fr.op = "delitem" -> __delitem__(c, fr.key)
      [] fr.op = "get" -> get(c, fr.key, fr.obj)
      [] fr.op = "pop" -> pop(c, fr.key)
      [] fr.op = "contains" -> Result(c, __contains__(c, fr.key), Ok)
      [] fr.op = "len" -> Result(c, len(c), Ok)
      [] fr.op = "keys" -> Result(c, keys(c), Ok)
      [] fr.op = "values" -> Result(c, values(c), Ok)
      [] fr.op = "items" -> Result(c, items(c), Ok)
      [] fr.op = "iter" -> Result(c, __iter__(c), Ok)
      [] fr.op = "reversed" -> Result(c, __reversed__(c), Ok)
      [] fr.op = "copy" -> Result(c, copy(c), Ok)
      [] fr.op = "popitem" -> popitem(c)
      [] fr.op = "clear" -> clear(c)
      [] fr.op = "max_size" -> max_size_setter(c, fr.value)
      [] fr.op = "max_size_get" -> max_size(c)

\* the caches the threads may find: built with a max_size, the first n keys
\* set one after the other, and the first key looked up or not
RECURSIVE Filled(_, _)
Filled(c, n) ==
    IF n = 0 THEN c
    ELSE LET before == Filled(c, n - 1)
         IN  __setitem__(before, n, ObjOf(n, "init")).c

\* threading.RLock: acquire() succeeds when no other thread owns the lock
CanAcquire_anyway(t) == TRUE

CanAcquire(t) == lock.owner \in {NoThread, t}

\* a with statement that does not take the lock
acquire_not(t) == lock

acquire(t) == [owner |-> t, count |-> lock.count + 1]

\* a release that is skipped when the body raises (acquire() and release()
\* around the body in the place of the with statement)
release_unless_raised(t) ==
    IF frames'[t].exc # Ok THEN lock
    ELSE IF lock.owner # t THEN lock
    ELSE IF lock.count = 1 THEN [owner |-> NoThread, count |-> 0]
    ELSE [lock EXCEPT !.count = @ - 1]

release(t) ==
    IF lock.owner # t THEN lock
    ELSE IF lock.count = 1 THEN [owner |-> NoThread, count |-> 0]
    ELSE [lock EXCEPT !.count = @ - 1]

InitConc ==
    /\ \E policy \in EvictionPolicy, size \in ConcSizes, n \in 0..NumConcKeys, touch \in BOOLEAN :
          LET c == Filled(IF policy = "LRU" THEN LRUClientCache(<<size>>) ELSE LFUClientCache(<<size>>), n)
          IN  cache = IF touch THEN __getitem__(c, 1).c ELSE c
    /\ lin = cache
    /\ lock = [owner |-> NoThread, count |-> 0]
    /\ frames = [t \in Threads |-> Idle]
    /\ NoObservers
    /\ NoSession
    /\ NoHeap
    /\ NoKeys

\* the calls a thread may make
Calls(t) ==
    {Call("setitem", key, ObjOf(key, t), 0) : key \in ConcKeys}
    \cup {Call("setitem", 1, NotAnObj, 0)}
    \cup {Call(op, key, None, 0) :
             op \in {"getitem", "delitem", "get", "pop", "contains"}, key \in ConcKeys}
    \cup {Call(op, NotAKey, None, 0) :
             op \in {"popitem", "clear", "len", "max_size_get",
                     "keys", "values", "items", "iter", "reversed", "copy"}}
    \cup {Call("max_size", NotAKey, None, value) : value \in ConcSizes}

\* A thread calls a method, up to the with statement: cache[key] = obj checks
\* the types of its arguments, and the max_size getter returns, without the
\* lock.  The type checks read key and obj only; the getter reads _max_size.
Start(t) ==
    /\ frames[t].pc = "idle"
    /\ \E fr \in Calls(t) :
          LET unlocked == \/ fr.op = "max_size_get"
                          \/ fr.op = "setitem" /\ ~(IsCacheKey(fr.key) /\ IsBotoObject(fr.obj))
              now == IF fr.op = "max_size_get" THEN max_size(cache)
                     ELSE Result(cache, None, "CacheError")
              a == Atomic(lin, fr)
          IN  /\ frames' = [frames EXCEPT ![t] =
                               IF unlocked
                               THEN [fr EXCEPT !.pc = "done", !.ret = now.ret, !.exc = now.exc,
                                               !.eret = a.ret, !.eexc = a.exc,
                                               !.bare = fr.op = "max_size_get" /\ lock.owner # t]
                               ELSE fr]
              /\ lin' = IF unlocked THEN a.c ELSE lin
    /\ UNCHANGED <<cache, lock, observers, svars, hvars, kvars>>

\* with self._lock:
Acquire(t) ==
    /\ frames[t].pc = "acq"
    /\ CanAcquire(t)
    /\ lock' = acquire(t)
    /\ frames' = [frames EXCEPT ![t].pc = "s1"]
    /\ UNCHANGED <<cache, lin, observers, svars, hvars, kvars>>

\* A thread executes its next statement in the body, which reads or writes
\* the cache; the call takes effect at its first statement; the lock is
\* released on the way out, be it by return or by raise.
Step(t) ==
    /\ frames[t].pc \notin {"idle", "acq", "done"}
    /\ \E r \in {step(cache, frames[t])}, a \in {Atomic(lin, frames[t])} :
          LET first == frames[t].pc = "s1"
          IN  /\ cache' = r.c
              /\ frames' = [frames EXCEPT ![t] =
                               IF first
                               THEN [r.fr EXCEPT !.eret = a.ret, !.eexc = a.exc,
                                                 !.bare = @ \/ lock.owner # t]
                               ELSE [r.fr EXCEPT !.bare = @ \/ lock.owner # t]]
              /\ lin' = IF first THEN a.c ELSE lin
              /\ lock' = IF r.fr.pc = "done" THEN release(t) ELSE lock
    /\ UNCHANGED <<observers, svars, hvars, kvars>>

NextConc == \E t \in Threads : Start(t) \/ Acquire(t) \/ Step(t)

SpecConc == InitConc /\ [][NextConc]_vars

(***************************************************************************)
(* The factories ClientCache and ResourceCache.  A Python value passed as  *)
(* eviction_policy is None or <<type, text>>.                              *)
(***************************************************************************)
PolicyValues ==
    {None, <<"str", "">>, <<"str", "LRU">>, <<"str", "LFU">>, <<"str", "FIFO">>,
     <<"str", "lru">>, <<"int", "0">>, <<"list", "LFU">>}

\* the registries once the module is imported: __init_subclass__ has
\* registered each public class under its eviction_policy
_ClientCacheRegistry == [LRU |-> "LRUClientCache", LFU |-> "LFUClientCache"]

_ResourceCacheRegistry == [LRU |-> "LRUResourceCache", LFU |-> "LFUResourceCache"]

\* cls(size=size) for a registered class
Instantiate(cls, size) ==
    CASE cls = "LRUClientCache" -> LRUClientCache(size)
      [] cls = "LFUClientCache" -> LFUClientCache(size)
      [] cls = "LRUResourceCache" -> LRUResourceCache(size)
      [] cls = "LFUResourceCache" -> LFUResourceCache(size)

\* __new__ of either factory over its registry: [c: the cache made or None,
\* exc: the error raised or Ok, registry: the registry afterwards].
\* `x or "LRU"` takes "LRU" for every falsy x; `x not in registry` hashes x,
\* which raises TypeError for a list, before isinstance(x, str) is evaluated.
__new__(reg, eviction_policy, size) ==
    LET falsy == eviction_policy \in {None, <<"str", "">>, <<"int", "0">>}
        policy == IF falsy THEN <<"str", "LRU">> ELSE eviction_policy
    IN  IF policy[1] = "list"
        THEN [c |-> None, exc |-> "TypeError", registry |-> reg]
        ELSE IF policy[2] \notin DOMAIN reg \/ policy[1] # "str"
        THEN [c |-> None, exc |-> "CacheError", registry |-> reg]
        ELSE [c |-> Instantiate(reg[policy[2]], size), exc |-> Ok, registry |-> reg]

\* __new__ with the bug that every unsupported policy falls back to "LRU"
__new__fallback(reg, eviction_policy, size) ==
    LET known == eviction_policy # None /\ eviction_policy[1] = "str"
                     /\ eviction_policy[2] \in DOMAIN reg
        policy == IF known THEN eviction_policy[2] ELSE "LRU"
    IN  [c |-> Instantiate(reg[policy], size), exc |-> Ok, registry |-> reg]

(***************************************************************************)
(* Objects held by reference.  A cache object is [policy, cache_type,      *)
(* max_size, _cache: the address of its dictionary, _frequencies: the      *)
(* address of its index (NoAddr in an LRU cache)].                         *)
(***************************************************************************)
NoAddr == NoNode

EmptyHeap == [caches |-> EmptyMap, dicts |-> EmptyMap, indexes |-> EmptyMap]

\* the address of a new object among the objects f: the least one free
NewAddr(f) ==
    CHOOSE a \in 1..(Cardinality(DOMAIN f) + 1) :
        a \notin DOMAIN f /\ \A b \in 1..(a - 1) : b \in DOMAIN f

\* the cache object at address a, with its dictionary and its index, as the
\* value the methods work on
Load(h, a) ==
    LET o == h.caches[a]
    IN  [policy |-> o.policy, cache_type |-> o.cache_type, max_size |-> o.max_size,
         od |-> IF o.policy = "LRU" THEN h.dicts[o._cache] ELSE <<>>,
         map |-> IF o.policy = "LFU" THEN h.dicts[o._cache] ELSE EmptyMap,
         frequencies |-> IF o.policy = "LFU" THEN h.indexes[o._frequencies]
                         ELSE _FrequencyIndex]

\* The heap when a method has left the cache object at address a as the
\* value c: _max_size is assigned, the dictionary and the index are changed
\* in place, except that clear() of an LFU cache binds _frequencies to a new
\* index.
Store(h, a, c, op) ==
    LET o == h.caches[a]
        index == IF o.policy = "LFU" /\ op = "clear"
                 THEN NewAddr(h.indexes)
                 ELSE o._frequencies
    IN  [caches |-> [h.caches EXCEPT ![a] = [o EXCEPT !.max_size = c.max_size,
                                                      !._frequencies = index]],
         dicts |-> [h.dicts EXCEPT ![o._cache] = IF o.policy = "LRU" THEN c.od ELSE c.map],
         indexes |-> IF o.policy = "LFU"
                     THEN MapSet(h.indexes, index, c.frequencies)
                     ELSE h.indexes]

\* a new cache object with the contents of the value c, its own dictionary
\* and its own index: [h: the heap afterwards, a: the address of the object]
Allocate(h, c) ==
    LET a == NewAddr(h.caches)
        d == NewAddr(h.dicts)
        i == IF c.policy = "LFU" THEN NewAddr(h.indexes) ELSE NoAddr
    IN  [h |-> [caches |-> MapSet(h.caches, a,
                               [policy |-> c.policy, cache_type |-> c.cache_type,
                                max_size |-> c.max_size, _cache |-> d, _frequencies |-> i]),
                dicts |-> MapSet(h.dicts, d, IF c.policy = "LRU" THEN c.od ELSE c.map),
                indexes |-> IF c.policy = "LFU"
                            THEN MapSet(h.indexes, i, c.frequencies)
                            ELSE h.indexes],
         a |-> a]

\* copy() with the bug that the new cache is given the dictionary of the
\* original (new_cache._cache = self._cache)
heap_copy_shared(h, a) ==
    LET made == Allocate(h, copy(Load(h, a)))
    IN  [made EXCEPT !.h.caches[made.a]._cache = h.caches[a]._cache]

\* copy() of the cache object at address a: self.__class__(max_size=...)
\* is a new object, _cache.copy() a new dictionary, _frequencies.copy() a
\* new index
heap_copy(h, a) == Allocate(h, copy(Load(h, a)))

\* the objects the caller can still reach
Collect(h, roots) ==
    LET alive == roots \cap DOMAIN h.caches
    IN  [caches |-> [a \in alive |-> h.caches[a]],
         dicts |-> [d \in {h.caches[a]._cache : a \in alive} |-> h.dicts[d]],
         indexes |-> [i \in {h.caches[a]._frequencies : a \in alive} \ {NoAddr} |->
                         h.indexes[i]]]

(***************************************************************************)
(* keys(), values(), items(), iter() and reversed().                       *)
(***************************************************************************)
ViewKinds == {"keys", "values", "items", "iter", "reversed"}

\* what the method of a name lists, on the cache as it is
Listing(c, kind) ==
    CASE kind = "keys" -> keys(c)
      [] kind = "values" -> values(c)
      [] kind = "items" -> items(c)
      [] kind = "iter" -> __iter__(c)
      [] kind = "reversed" -> __reversed__(c)

\* a method that returns a view of the cache where the code builds a tuple
live_view(h, a, kind) ==
    [tag |-> "view", kind |-> kind, of |-> a, elements |-> <<>>,
     size |-> len(Load(h, a))]

\* tuple(...): the elements are read when the method is called
tuple(h, a, kind) ==
    [tag |-> "tuple", kind |-> kind, of |-> NoAddr,
     elements |-> Listing(Load(h, a), kind),
     size |-> len(Load(h, a))]

\* The caller reads what it was given, to the end: a tuple yields its
\* elements; a view yields what the cache holds now, and iterating it fails
\* when the size of the dictionary has changed.
Consume(h, v) ==
    IF v.tag = "tuple"
    THEN [elements |-> v.elements, exc |-> Ok]
    ELSE [elements |-> Listing(Load(h, v.of), v.kind),
          exc |-> IF len(Load(h, v.of)) # v.size THEN "RuntimeError" ELSE Ok]

(***************************************************************************)
(* SpecHeap.                                                               *)
(***************************************************************************)
HeapKeys == 1..NumHeapKeys

HeapSizes == {None} \cup {<<v>> : v \in 0..NumHeapKeys}

\* the caller holds a copy or a snapshot
Paired == refs.twin # NoAddr \/ view # None

Quiet == [op |-> "none", which |-> "none", args |-> None, exc |-> Ok]

InitHeap ==
    /\ heap = EmptyHeap
    /\ refs = [orig |-> NoAddr, twin |-> NoAddr]
    /\ view = None
    /\ registry = [client |-> _ClientCacheRegistry, resource |-> _ResourceCacheRegistry]
    /\ hcall = Quiet
    /\ later = FALSE
    /\ NoCache
    /\ NoSession
    /\ NoThreads
    /\ NoKeys

\* orig = ClientCache(eviction_policy, max_size=size) or
\* orig = ResourceCache(eviction_policy, max_size=size), before the caller
\* uses a cache; the cache orig referred to before is dropped.
New ==
    \E kind \in {"client", "resource"}, eviction_policy \in PolicyValues, size \in HeapSizes :
        \E r \in {__new__(registry[kind], eviction_policy, size)} :
            /\ ~Paired
            /\ refs.orig = NoAddr \/ hcall.op = "new"
            /\ registry' = [registry EXCEPT ![kind] = r.registry]
            /\ hcall' = [op |-> "new", which |-> "orig",
                         args |-> <<kind, eviction_policy, size>>, exc |-> r.exc]
            /\ IF r.exc # Ok
               THEN UNCHANGED <<heap, refs>>
               ELSE \E made \in {Allocate(Collect(heap, {}), r.c)} :
                       /\ heap' = made.h
                       /\ refs' = [refs EXCEPT !.orig = made.a]
            /\ UNCHANGED <<view, later, cvars, svars, tvars, kvars>>

\* twin = orig.copy()
Copy ==
    /\ refs.orig # NoAddr
    /\ ~Paired
    /\ \E made \in {heap_copy(heap, refs.orig)} :
          /\ heap' = made.h
          /\ refs' = [refs EXCEPT !.twin = made.a]
    /\ hcall' = [op |-> "copy", which |-> "orig", args |-> None, exc |-> Ok]
    /\ UNCHANGED <<view, registry, later, cvars, svars, tvars, kvars>>

\* view = orig.keys(), orig.values(), orig.items(), iter(orig) or reversed(orig)
TakeView ==
    /\ refs.orig # NoAddr
    /\ ~Paired
    /\ \E kind \in ViewKinds :
          /\ view' = [v |-> tuple(heap, refs.orig, kind),
                      taken |-> Listing(Load(heap, refs.orig), kind)]
          /\ hcall' = [op |-> kind, which |-> "orig", args |-> None, exc |-> Ok]
    /\ UNCHANGED <<heap, refs, registry, later, cvars, svars, tvars, kvars>>

\* the calls that may change a cache
HeapCalls ==
    {Call("setitem", key, Obj(key), 0) : key \in HeapKeys}
    \cup {Call(op, key, None, 0) : op \in {"getitem", "delitem", "get", "pop"}, key \in HeapKeys}
    \cup {Call(op, NotAKey, None, 0) : op \in {"popitem", "clear"}}
    \cup {Call("max_size", NotAKey, None, value) : value \in 0..NumHeapKeys}

\* the calls made on the cache c: a key is hit MaxHeapHits times at most
HeapCallsOn(c) ==
    {fr \in HeapCalls :
        fr.op \in {"getitem", "get"} /\ c.policy = "LFU" /\ __contains__(c, fr.key)
            => FI_frequency(c.frequencies, fr.key) <= MaxHeapHits}

\* the heap when the call fr on the cache object at address a has returned
\* or raised
Called(h, a, fr) == Store(h, a, Atomic(Load(h, a), fr).c, fr.op)

\* A call of a method on orig or on twin; once the caller holds a copy or a
\* snapshot, one call is followed.
HeapCall ==
    \E which \in {"orig", "twin"} :
        /\ refs[which] # NoAddr
        /\ ~later
        /\ \E fr \in HeapCallsOn(Load(heap, refs[which])) :
              /\ heap' = Collect(Called(heap, refs[which], fr), {refs.orig, refs.twin})
              /\ hcall' = IF Paired
                          THEN [op |-> fr.op, which |-> which, args |-> None,
                                exc |-> Atomic(Load(heap, refs[which]), fr).exc]
                          ELSE Quiet
        /\ later' = Paired
        /\ UNCHANGED <<refs, view, registry, cvars, svars, tvars, kvars>>

NextHeap ==
    \/ New
    \/ Copy
    \/ TakeView
    \/ HeapCall

SpecHeap == InitHeap /\ [][NextHeap]_vars

(***************************************************************************)
(* What a cache object satisfies between calls.                            *)
(***************************************************************************)
NoDuplicates(s) == \A i, j \in DOMAIN s : s[i] = s[j] => i = j

\* the nodes from head along next, as far as the links lead
RECURSIVE Chain(_, _, _)
Chain(f, current, fuel) ==
    IF current = NoNode \/ current \notin DOMAIN f.nodes \/ fuel = 0
    THEN <<>>
    ELSE <<current>> \o Chain(f, f.nodes[current].next, fuel - 1)

Linked(f) == Chain(f, f.head, Cardinality(DOMAIN f.nodes) + 1)

IndexShape(f) ==
    LET chain == Linked(f)
    IN  /\ Range(chain) = DOMAIN f.nodes
        /\ NoDuplicates(chain)
        /\ \A i \in DOMAIN chain :
              /\ f.nodes[chain[i]].frequency >= 1
              /\ f.nodes[chain[i]].keys # <<>>
              /\ i > 1 => f.nodes[chain[i - 1]].frequency < f.nodes[chain[i]].frequency
              /\ f.nodes[chain[i]].prev = IF i = 1 THEN NoNode ELSE chain[i - 1]
              /\ f.nodes[chain[i]].next = IF i = Len(chain) THEN NoNode ELSE chain[i + 1]
        /\ f.head = IF chain = <<>> THEN NoNode ELSE chain[1]
        /\ f.tail = IF chain = <<>> THEN NoNode ELSE chain[Len(chain)]

MapAndIndexAgree(c) ==
    LET f == c.frequencies
    IN  /\ DOMAIN f.key_to_node = DOMAIN c.map
        /\ Range(FI_iter_keys(f)) = DOMAIN c.map
        /\ NoDuplicates(FI_iter_keys(f))
        /\ \A k \in DOMAIN c.map :
              /\ f.key_to_node[k] \in DOMAIN f.nodes
              /\ k \in Range(f.nodes[f.key_to_node[k]].keys)

WellFormed(c) ==
    /\ len(c) <= c.max_size
    /\ c.max_size >= 0
    /\ c.policy = "LRU" => NoDuplicates(OD_keys(c.od))
    /\ c.policy = "LFU" => IndexShape(c.frequencies) /\ MapAndIndexAgree(c)

\* the last n elements of a sequence
LastN(s, n) == SubSeq(s, Len(s) - n + 1, Len(s))

\* a call to cache[key] = obj with arguments of the right types
ValidSet(call) == call.op = "setitem" /\ IsCacheKey(call.key) /\ IsBotoObject(call.obj)

(***************************************************************************)
(* C1.  Capacity invariant: in both caches, after any sequence of set,     *)
(* [] / get, del, pop, popitem, clear and max_size assignments, whenever   *)
(* no operation is in progress the number of entries is <= max_size.       *)
(***************************************************************************)
C1_Capacity == len(cache) <= cache.max_size

\* a set has just evicted to keep a full cache within its capacity
C1_Witness ==
    /\ last.op = "setitem"
    /\ last.removed # <<>>
    /\ len(cache) = cache.max_size
    /\ cache.max_size >= 1

(***************************************************************************)
(* C2.  No silent overwrite: in both caches, set(k, y) on a key k that is  *)
(* already present raises the exists error and changes nothing: value,     *)
(* size, max_size, order and frequencies are as before the call.           *)
(***************************************************************************)
C2_NoSilentOverwrite ==
    [][ValidSet(last') /\ __contains__(cache, last'.key)
           => /\ last'.exc = "ExistsError"
              /\ cache' = cache
              /\ Stored(cache', last'.key) = Stored(cache, last'.key)
              /\ keys(cache') = keys(cache)]_vars

\* a set of another object on a present key has been refused
C2_Witness ==
    /\ last.op = "setitem"
    /\ last.exc = "ExistsError"
    /\ __contains__(cache, last.key)
    /\ last.obj # Stored(cache, last.key)

(***************************************************************************)
(* C3.  LRU eviction order: in an LRU cache with max_size >= 1, when a set *)
(* of a new key makes the occupancy exceed max_size, the evicted key is    *)
(* exactly the one whose most recent touch (insertion or last hit of []    *)
(* or get()) is the oldest; every other key, the new one included, stays.  *)
(***************************************************************************)
C3_LRUEvictionOrder ==
    [][(/\ cache.policy = "LRU"
        /\ cache.max_size >= 1
        /\ ValidSet(last')
        /\ ~__contains__(cache, last'.key)
        /\ len(cache) + 1 > cache.max_size)
           => /\ last'.exc = Ok
              /\ KeySet(cache') = (KeySet(cache) \cup {last'.key}) \ {Head(ranking)}
              /\ Head(ranking) # last'.key]_vars

\* an LRU set has evicted one key and spared the key inserted first, which
\* is older but was touched since
C3_Witness ==
    /\ cache.policy = "LRU"
    /\ last.op = "setitem"
    /\ Len(last.removed) = 1
    /\ eldest # NotAKey
    /\ eldest # last.key
    /\ eldest \in KeySet(cache)
    /\ last.key \in KeySet(cache)

(***************************************************************************)
(* C4.  LFU evicts a least-frequently-used key: in an LFU cache with       *)
(* max_size >= 1 at full occupancy, a set of a new key evicts a key whose  *)
(* touch count is minimal among the keys present before the call; a key    *)
(* with a strictly higher count is never evicted while a key with a lower  *)
(* count is present, whatever their insertion ages.                        *)
(***************************************************************************)
C4_LFUEvictsLeastFrequent ==
    [][(/\ cache.policy = "LFU"
        /\ cache.max_size >= 1
        /\ ValidSet(last')
        /\ ~__contains__(cache, last'.key)
        /\ len(cache) = cache.max_size)
           => /\ last'.exc = Ok
              /\ \E v \in KeySet(cache) :
                    /\ KeySet(cache') = (KeySet(cache) \ {v}) \cup {last'.key}
                    /\ hits[v] = Min({hits[k] : k \in KeySet(cache)})
                    /\ FI_frequency(cache.frequencies, v) = hits[v] + 1]_vars

\* an LFU set has evicted a key with fewer hits than the key inserted first
C4_Witness ==
    /\ cache.policy = "LFU"
    /\ last.op = "setitem"
    /\ Len(last.removed) = 1
    /\ eldest \in KeySet(cache)
    /\ eldest # last.key
    /\ hits[eldest] > last.removed[1].hits

(***************************************************************************)
(* C5.  LFU tie-break: among the keys that share the minimal frequency, an *)
(* LFU eviction removes the one that has gone longest without being        *)
(* touched at that frequency, i.e. the one that entered its current        *)
(* frequency bucket earliest, not the one that arrived in the cache        *)
(* earliest.                                                               *)
(***************************************************************************)
C5_LFUTieBreak ==
    [][(/\ cache.policy = "LFU"
        /\ cache.max_size >= 1
        /\ ValidSet(last')
        /\ ~__contains__(cache, last'.key)
        /\ len(cache) = cache.max_size)
           => LET least == Min({hits[k] : k \in KeySet(cache)})
                  ties == SelectSeq(ranking, LAMBDA k : hits[k] = least)
              IN  /\ Head(ties) \notin KeySet(cache')
                  /\ \A k \in KeySet(cache) \ {Head(ties)} : k \in KeySet(cache')]_vars

\* an LFU set has evicted a key although the key inserted first had the same
\* number of hits: the eldest was touched at that frequency more recently
C5_Witness ==
    /\ cache.policy = "LFU"
    /\ last.op = "setitem"
    /\ Len(last.removed) = 1
    /\ eldest \in KeySet(cache)
    /\ eldest # last.key
    /\ hits[eldest] = last.removed[1].hits

(***************************************************************************)
(* C6.  Capacity shrink: assigning max_size = m with |m| < n (n the        *)
(* occupancy) leaves exactly |m| entries, the last |m| keys of the         *)
(* iteration order before the assignment (LRU: the most recently used;     *)
(* LFU: the highest by frequency, then by recency within a frequency),     *)
(* with unchanged values and relative order; a value >= n evicts nothing.  *)
(***************************************************************************)
C6_CapacityShrink ==
    [][last'.op = "max_size"
           => LET m == abs(last'.value)
                  n == len(cache)
              IN  /\ last'.exc = Ok
                  /\ cache'.max_size = m
                  /\ m < n => /\ len(cache') = m
                              /\ keys(cache') = LastN(keys(cache), m)
                              /\ keys(cache') = LastN(ranking, m)
                  /\ m >= n => keys(cache') = keys(cache)
                  /\ \A k \in KeySet(cache') : Stored(cache', k) = Stored(cache, k)
                  /\ cache'.policy = "LFU" =>
                        \A k \in KeySet(cache') :
                            FI_frequency(cache'.frequencies, k)
                                = FI_frequency(cache.frequencies, k)]_vars

\* an assignment to max_size has evicted two keys and kept at least one
C6_Witness ==
    /\ last.op = "max_size"
    /\ Len(last.removed) >= 2
    /\ len(cache) >= 1
    /\ len(cache) = abs(last.value)

(***************************************************************************)
(* C7.  Linearizability: for any interleaving of the calls of two threads  *)
(* on one cache object, every call returns or raises what it does when     *)
(* the calls happen one at a time in the order in which they take effect   *)
(* (a point between the call and its return, so an order that respects     *)
(* each thread's program order), and the cache ends as it does then; no    *)
(* call finds the cache as another thread's call has half changed it: a    *)
(* thread that enters the body of a method finds the cache complete and    *)
(* well formed (map and frequency index agree, entries <= max_size).       *)
(***************************************************************************)
C7_Linearizable ==
    /\ \A t \in Threads :
          frames[t].pc = "done" =>
              frames[t].ret = frames[t].eret /\ frames[t].exc = frames[t].eexc
    /\ lock.owner = NoThread => cache = lin /\ WellFormed(cache)
    /\ \A t \in Threads : frames[t].pc = "s1" => cache = lin /\ WellFormed(cache)
    /\ cache.max_size = lin.max_size

\* a thread is in the body of a method and has half changed the cache,
\* while the other thread waits for the lock
C7_Witness ==
    \E t, u \in Threads :
        /\ t # u
        /\ lock.owner = t
        /\ frames[u].pc = "acq"
        /\ \/ cache.policy = "LFU" /\ DOMAIN cache.map # DOMAIN cache.frequencies.key_to_node
           \/ len(cache) > cache.max_size

(***************************************************************************)
(* Calls of the Session's methods.                                         *)
(***************************************************************************)
\* a call of client() or resource() with a valid eviction_policy
ValidCall(call) ==
    /\ call.method \in {"client", "resource"}
    /\ call.eviction_policy = None \/ call.eviction_policy[1] \in EvictionPolicy

\* the cache of the Session a valid call selects
Selected(s, call) ==
    s[call.method][IF call.eviction_policy = None THEN "LRU" ELSE call.eviction_policy[1]]

SameCache(call1, call2) ==
    /\ call1.method = call2.method
    /\ Selected(SessionCache, call1).policy = Selected(SessionCache, call2).policy

\* the object the factory has built last
Newest(method, n) == <<"obj", method, n>>

(***************************************************************************)
(* C8.  Session.client / Session.resource always deliver an object: for    *)
(* every call with eviction_policy None, "LRU" or "LFU" and max_size None  *)
(* or an integer, from any reachable state, the call returns the cached    *)
(* object if the key was present and otherwise the newly created object,   *)
(* which is then cached; it never ends in a not-found error.               *)
(* The code does not satisfy this: C8_SessionAlwaysDelivers is violated.   *)
(***************************************************************************)
C8_SessionAlwaysDelivers ==
    [][ValidCall(scall') =>
          LET c == Selected(session, scall')
              key == scall'.key
          IN  /\ scall'.exc = Ok
              /\ IsBotoObject(scall'.ret)
              /\ (__contains__(c, key) => scall'.ret = Stored(c, key))
              /\ (~__contains__(c, key) =>
                     /\ scall'.ret = Newest(scall'.method, created')
                     /\ __contains__(Selected(session', scall'), key)
                     /\ Stored(Selected(session', scall'), key) = scall'.ret)]_vars

(***************************************************************************)
(* C9.  Session caching by cache key: for one session and one eviction     *)
(* policy, a call whose key is present returns the identical object that   *)
(* is cached for the key, which is the object the previous call returned   *)
(* if that call had an equal key and selected the same cache; the boto3    *)
(* factory is invoked exactly when the key is absent, once; a call whose   *)
(* key differs from the key of another entry, or of the previous call,     *)
(* returns a different object than that one.  (A call with an invalid      *)
(* eviction_policy invokes no factory.)                                    *)
(***************************************************************************)
\* the factory is invoked only on a miss, once per miss
C9_FactoryOnMiss ==
    IF ValidCall(scall')
    THEN LET hit == __contains__(Selected(session, scall'), scall'.key)
         IN  /\ scall'.built = ~hit
             /\ created' = IF hit THEN created ELSE created + 1
    ELSE ~scall'.built /\ created' = created

\* a call whose key is present returns the identical object
C9_HitIsIdentical ==
    ValidCall(scall') /\ scall'.exc = Ok =>
        LET c == Selected(session, scall')
        IN  /\ (__contains__(c, scall'.key) => scall'.ret = Stored(c, scall'.key))
            /\ (/\ ValidCall(scall) /\ scall.exc = Ok /\ SameCache(scall, scall')
                /\ scall.key = scall'.key /\ __contains__(c, scall'.key)
                => scall'.ret = scall.ret)

C9_SessionCachingByKey ==
    [][/\ C9_FactoryOnMiss
       /\ C9_HitIsIdentical
       /\ (ValidCall(scall') /\ scall'.exc = Ok =>
              LET c == Selected(session, scall')
              IN  /\ \A k \in KeySet(c) \ {scall'.key} : scall'.ret # Stored(c, k)
                  /\ (/\ ValidCall(scall) /\ scall.exc = Ok /\ SameCache(scall, scall')
                      /\ scall.key # scall'.key
                      => scall'.ret # scall.ret))]_vars

\* the second of two calls with equal keys is answered from the cache
C9_Witness ==
    /\ ValidCall(scall)
    /\ scall.exc = Ok
    /\ ~scall.built
    /\ calls = 2
    /\ created = 1
    /\ scall.ret = Newest(scall.method, 1)

\* The statement with call signatures in the place of keys: a call whose
\* signature differs from that of the previous call returns a different
\* object.  It is violated.
C9_SessionCachingBySignature ==
    [][/\ C9_FactoryOnMiss
       /\ C9_HitIsIdentical
       /\ (/\ ValidCall(scall') /\ scall'.exc = Ok
           /\ ValidCall(scall) /\ scall.exc = Ok /\ SameCache(scall, scall')
           /\ scall.sig # scall'.sig
           => scall'.ret # scall.ret)]_vars

(***************************************************************************)
(* C10.  Failed lookups and removals are atomic: in both caches, cache[k], *)
(* del cache[k] and pop(k) on an absent key k raise the not-found error    *)
(* and leave contents, size, max_size, order and frequencies as before;    *)
(* after any failed call the cache satisfies all its invariants.           *)
(***************************************************************************)
C10_FailedCallsAtomic ==
    [][/\ last'.op \in {"getitem", "delitem", "pop"} /\ ~__contains__(cache, last'.key)
           => last'.exc = "NotFoundError" /\ cache' = cache
       /\ last'.exc # Ok => cache' = cache /\ WellFormed(cache')]_vars

\* a pop of an absent key has failed on a cache that holds other keys
C10_Witness ==
    /\ last.op = "pop"
    /\ last.exc = "NotFoundError"
    /\ len(cache) >= 1

(***************************************************************************)
(* Calls of set with arguments of every kind.                              *)
(***************************************************************************)
\* the keys tried: client keys, resource keys and an object that is no key
AnyKeys == Keys \cup {0 - key : key \in Keys} \cup {NotAKey}

\* the key is an instance of the key type of the cache
OfKeyType(c, key) ==
    IF c.cache_type = "client" THEN IsClientCacheKey(key) ELSE IsResourceCacheKey(key)

(***************************************************************************)
(* C11.  Type validation precedes mutation: in every reachable state of a  *)
(* client cache, LRU or LFU, full or not, max_size 0 or not, a set whose   *)
(* key is no instance of the cache's key type (ClientCacheKey), or whose   *)
(* value is no boto3 client or resource, raises the validation error and   *)
(* leaves the cache object as it was.                                      *)
(* The code does not satisfy this: a ResourceCacheKey passes the           *)
(* isinstance(key, _AbstractCacheKey) test of a client cache and is stored.*)
(***************************************************************************)
C11_TypeValidation ==
    \A key \in AnyKeys, obj \in {OtherObj, NotAnObj} :
        ~OfKeyType(cache, key) \/ ~IsBotoObject(obj)
            => __setitem__(cache, key, obj) = Result(cache, None, "CacheError")

\* What does hold: an object that is no cache key at all, and a value that
\* is no boto3 object, are rejected before anything is changed.
C11_NonKeysAndNonObjectsRejected ==
    \A key \in AnyKeys, obj \in {OtherObj, NotAnObj} :
        ~IsCacheKey(key) \/ ~IsBotoObject(obj)
            => __setitem__(cache, key, obj) = Result(cache, None, "CacheError")

(***************************************************************************)
(* The next capacity eviction.                                             *)
(***************************************************************************)
\* the cache after the capacity has been lowered to one entry less than it
\* holds, which evicts one entry
AfterEviction(c) == max_size_setter(c, len(c) - 1).c

\* the frequency an LFU cache records for a key present
Frequency(c, key) == FI_frequency(c.frequencies, key)

(***************************************************************************)
(* C12.  get(key, default) never raises.  On a miss it returns default and *)
(* the cache object is unchanged.  On a hit it returns the stored value    *)
(* and leaves the cache exactly as cache[key] leaves it: in an LRU cache   *)
(* the key is the last of the iteration order and the others keep their    *)
(* order; in an LFU cache the frequency of the key is one higher and every *)
(* other frequency is as before.  The next eviction spares the key read    *)
(* if and only if another key is present which the policy ranks before it  *)
(* after the touch: in an LRU cache any other key, in an LFU cache a key   *)
(* whose frequency is at most the new frequency of the key read.           *)
(***************************************************************************)
C12_Get ==
    \A key \in Keys, default \in {None, OtherObj} :
        LET r == get(cache, key, default)
        IN  /\ r.exc = Ok
            /\ ~__contains__(cache, key) => r.ret = default /\ r.c = cache
            /\ __contains__(cache, key) =>
                  /\ r.ret = Stored(cache, key)
                  /\ r.c = __getitem__(cache, key).c
                  /\ KeySet(r.c) = KeySet(cache)
                  /\ r.c.max_size = cache.max_size
                  /\ \A k \in KeySet(cache) : Stored(r.c, k) = Stored(cache, k)
                  /\ cache.policy = "LRU" => keys(r.c) = KS_del(keys(cache), key) \o <<key>>
                  /\ cache.policy = "LFU" =>
                        /\ Frequency(r.c, key) = Frequency(cache, key) + 1
                        /\ \A k \in KeySet(cache) \ {key} :
                              Frequency(r.c, k) = Frequency(cache, k)
                  /\ key \in KeySet(AfterEviction(r.c))
                        <=> \E k \in KeySet(cache) \ {key} :
                               cache.policy = "LFU"
                                   => Frequency(cache, k) <= Frequency(cache, key) + 1

\* get() has hit a key of a cache that holds another key as well, and the
\* key read is not the one an eviction would take next
C12_Witness ==
    /\ last.op = "get"
    /\ last.exc = Ok
    /\ __contains__(cache, last.key)
    /\ last.ret = Stored(cache, last.key)
    /\ len(cache) >= 2
    /\ last.key \in KeySet(AfterEviction(cache))
    /\ keys(cache)[1] # last.key

\* C12 as written, read with the proviso that the cache holds another key
\* that an eviction can take: an eviction that follows a hit of get()
\* spares the key read
C12_GetAlwaysSpares ==
    \A key \in Keys :
        __contains__(cache, key) /\ len(cache) >= 2
            => key \in KeySet(AfterEviction(get(cache, key, None).c))

(***************************************************************************)
(* C13.  popitem() returns the policy's eviction victim.  On a cache that  *)
(* holds entries it raises nothing, returns the pair (key, value) of the   *)
(* key that is first in the iteration order, which is the head of the      *)
(* documented ranking and the key the next capacity eviction (a lowered    *)
(* max_size, or a set on the full cache) removes, and it leaves every      *)
(* other entry in place: same order, values, frequencies and max_size.  On *)
(* an empty cache it raises the not-found error and the cache is unchanged.*)
(***************************************************************************)
C13_PopItem ==
    LET r == popitem(cache)
        victim == keys(cache)[1]
    IN  /\ len(cache) = 0 => r.exc = "NotFoundError" /\ r.c = cache /\ len(r.c) = 0
        /\ len(cache) > 0 =>
              /\ r.exc = Ok
              /\ r.ret = <<victim, Stored(cache, victim)>>
              /\ victim = ranking[1]
              /\ keys(r.c) = Tail(keys(cache))
              /\ KeySet(r.c) = KeySet(cache) \ {victim}
              /\ r.c.max_size = cache.max_size
              /\ \A k \in KeySet(r.c) :
                    /\ Stored(r.c, k) = Stored(cache, k)
                    /\ cache.policy = "LFU" => Frequency(r.c, k) = Frequency(cache, k)
              /\ KeySet(AfterEviction(cache)) = KeySet(r.c)
              /\ \A key \in Keys :
                    ~__contains__(cache, key) /\ len(cache) = cache.max_size
                        => KeySet(__setitem__(cache, key, Obj(key)).c)
                               = KeySet(r.c) \cup {key}

\* popitem() has taken a key with fewer hits than a key inserted before it,
\* and that key has stayed
C13_Witness ==
    /\ last.op = "popitem"
    /\ last.exc = Ok
    /\ cache.policy = "LFU"
    /\ Len(last.removed) = 1
    /\ len(cache) >= 1
    /\ \E k \in KeySet(cache) : hits[k] > last.removed[1].hits /\ k = eldest

(***************************************************************************)
(* The order in which capacity evictions empty a cache.                    *)
(***************************************************************************)
RECURSIVE EvictionOrder(_)
EvictionOrder(c) ==
    IF len(c) = 0 THEN <<>>
    ELSE LET rest == AfterEviction(c)
             gone == KeySet(c) \ KeySet(rest)
         IN  IF Cardinality(gone) # 1 THEN <<NotAKey>>
             ELSE <<CHOOSE k \in gone : TRUE>> \o EvictionOrder(rest)

(***************************************************************************)
(* C14.  Iteration order equals the policy's ranking.  In every reachable  *)
(* state iter(cache) and keys() list the keys present in the documented    *)
(* ranking (LRU: least to most recently touched; LFU: increasing number of *)
(* hits, and among equal hits least to most recently touched), which is    *)
(* the order in which evictions would remove them; values() and items()    *)
(* list the stored values and pairs in the same order, and reversed(cache) *)
(* is the reverse of iter(cache).                                          *)
(***************************************************************************)
C14_IterationOrder ==
    /\ keys(cache) = ranking
    /\ __iter__(cache) = ranking
    /\ values(cache) = [i \in DOMAIN ranking |-> Stored(cache, ranking[i])]
    /\ items(cache) = [i \in DOMAIN ranking |-> <<ranking[i], Stored(cache, ranking[i])>>]
    /\ __reversed__(cache) = Reverse(__iter__(cache))
    /\ EvictionOrder(cache) = keys(cache)
    /\ cache.policy = "LFU" =>
          \A i, j \in DOMAIN ranking :
              /\ hits[ranking[i]] + 1 = Frequency(cache, ranking[i])
              /\ i < j => Frequency(cache, ranking[i]) <= Frequency(cache, ranking[j])

\* an LFU cache of three keys whose order is not the order of insertion:
\* two keys of equal hits come first, and the key inserted first, which
\* get() has just hit, comes last
C14_Witness ==
    /\ cache.policy = "LFU"
    /\ len(cache) = 3
    /\ hits[ranking[1]] = hits[ranking[2]]
    /\ hits[ranking[2]] < hits[ranking[3]]
    /\ ranking[3] = eldest
    /\ last.op = "get"
    /\ last.key = ranking[3]
    /\ __reversed__(cache) = <<ranking[3], ranking[2], ranking[1]>>

(***************************************************************************)
(* C17.  Capacity zero.  In both caches every state between calls with     *)
(* max_size = 0 is the empty cache: no entry, and in an LFU cache no node  *)
(* and no key in the frequency index.  In such a state a set of a valid    *)
(* key and payload raises nothing and leaves the cache object as it was.   *)
(***************************************************************************)
C17_CapacityZero ==
    cache.max_size = 0 =>
        /\ len(cache) = 0
        /\ keys(cache) = <<>>
        /\ cache.od = <<>>
        /\ cache.map = EmptyMap
        /\ cache.frequencies = _FrequencyIndex
        /\ \A key \in Keys, obj \in Objs :
              __setitem__(cache, key, obj) = Result(cache, None, Ok)

\* a set of a valid key and payload has returned from an LRU cache of
\* capacity 0, which inserts and evicts at once, and the cache is empty
C17_Witness ==
    /\ cache.max_size = 0
    /\ cache.policy = "LRU"
    /\ ValidSet(last)
    /\ last.exc = Ok
    /\ last.removed = <<>>
    /\ len(cache) = 0

(***************************************************************************)
(* Threads and the lock.                                                   *)
(***************************************************************************)
\* the thread is between the entry of a with statement and its exit
InBody(t) == frames[t].pc \notin {"idle", "acq", "done"}

Free == [owner |-> NoThread, count |-> 0]

(***************************************************************************)
(* C18.  Lock release on every exit path.  A thread owns the lock exactly  *)
(* while it is in the body of a with statement, once; a call that has      *)
(* ended, by return or by raising the not-found, exists or validation      *)
(* error, has released it; whenever no thread is in a body the lock is     *)
(* free, so a thread waiting at a with statement can enter.                *)
(***************************************************************************)
C18_LockReleased ==
    /\ lock.count \in {0, 1}
    /\ lock.count = 0 <=> lock.owner = NoThread
    /\ \A t \in Threads :
          /\ lock.owner = t <=> InBody(t)
          /\ frames[t].pc = "done" => lock.owner # t
    /\ (\A t \in Threads : ~InBody(t)) =>
          /\ lock = Free
          /\ \A t \in Threads : frames[t].pc = "acq" => CanAcquire(t)

\* a call has raised not-found or exists inside the with statement, and the
\* other thread has taken the lock after it
C18_Witness ==
    \E t, u \in Threads :
        /\ t # u
        /\ frames[t].pc = "done"
        /\ frames[t].exc \in {"NotFoundError", "ExistsError"}
        /\ frames[u].pc = "s1"
        /\ lock = [owner |-> u, count |-> 1]

(***************************************************************************)
(* C19.  State access under the lock.  Every call but the read of the      *)
(* max_size property reads and writes _cache, _frequencies and _max_size   *)
(* only while its thread owns the lock, from its first access to its last: *)
(* at most one thread is in a body, and it is the owner.  The max_size     *)
(* getter reads _max_size without taking the lock.                         *)
(***************************************************************************)
C19_AccessUnderLock ==
    /\ \A t \in Threads :
          /\ frames[t].bare => frames[t].op = "max_size_get"
          /\ InBody(t) => lock.owner = t
    /\ \A t, u \in Threads : InBody(t) /\ InBody(u) => t = u

\* a thread is in the body of a set that has stored its entry, and the
\* other thread, which has called a method that changes the cache, waits
C19_Witness ==
    \E t, u \in Threads :
        /\ t # u
        /\ frames[t].op = "setitem"
        /\ frames[t].pc \notin {"idle", "acq", "s1", "done"}
        /\ __contains__(cache, frames[t].key)
        /\ ~__contains__(lin, frames[u].key)
        /\ frames[u].op = "delitem"
        /\ frames[u].pc = "acq"
        /\ lock.owner = t

\* C19 as written: no call, the read of the capacity included, reads or
\* writes the bookkeeping state while its thread does not hold the lock
C19_AllAccessUnderLock ==
    \A t \in Threads : ~frames[t].bare



(***************************************************************************)
(* C20.  The factories.                                                    *)
(***************************************************************************)
RegistryAtImport == [client |-> _ClientCacheRegistry, resource |-> _ResourceCacheRegistry]

\* C20: ClientCache(policy) and ResourceCache(policy) return a new, empty LRU
\* cache of their cache type when policy is None, empty or "LRU", a new, empty
\* LFU cache when policy is "LFU", and for every other policy value raise the
\* configuration error without creating a cache; the registry of supported
\* policies is the same before and after every call.
C20_FactoryDispatch ==
    /\ registry = RegistryAtImport
    /\ \A kind \in {"client", "resource"}, eviction_policy \in PolicyValues, size \in HeapSizes :
          __new__(registry[kind], eviction_policy, size).exc # Ok
              => __new__(registry[kind], eviction_policy, size).c = None
    /\ hcall.op = "new" =>
          LET kind == hcall.args[1]
              eviction_policy == hcall.args[2]
              policy == IF eviction_policy \in {None, <<"str", "">>, <<"str", "LRU">>} THEN "LRU"
                        ELSE IF eviction_policy = <<"str", "LFU">> THEN "LFU"
                        ELSE "other"
          IN  IF policy = "other"
              THEN hcall.exc = "CacheError"
              ELSE /\ hcall.exc = Ok
                   /\ Load(heap, refs.orig).policy = policy
                   /\ Load(heap, refs.orig).cache_type = kind
                   /\ len(Load(heap, refs.orig)) = 0

\* C20, for the policy values that are strings or None: the dispatch is as
\* stated, and a string that is not a registered name raises the
\* configuration error.
C20_NamedPolicies ==
    /\ registry = RegistryAtImport
    /\ hcall.op = "new" /\ (hcall.args[2] = None \/ hcall.args[2][1] = "str") =>
          LET kind == hcall.args[1]
              eviction_policy == hcall.args[2]
              policy == IF eviction_policy \in {None, <<"str", "">>, <<"str", "LRU">>} THEN "LRU"
                        ELSE IF eviction_policy = <<"str", "LFU">> THEN "LFU"
                        ELSE "other"
          IN  IF policy = "other"
              THEN hcall.exc = "CacheError"
              ELSE /\ hcall.exc = Ok
                   /\ Load(heap, refs.orig).policy = policy
                   /\ Load(heap, refs.orig).cache_type = kind
                   /\ len(Load(heap, refs.orig)) = 0


(***************************************************************************)
(* C16.  copy().                                                           *)
(***************************************************************************)
Other(which) == IF which = "orig" THEN "twin" ELSE "orig"

\* what a caller can tell of a cache: its capacity, its keys in iteration
\* order with the value each refers to, and the frequency of each key
Contents(c) ==
    [max_size |-> max_size(c).ret, items |-> items(c),
     frequencies |-> IF c.policy = "LFU"
                     THEN [key \in KeySet(c) |-> Frequency(c, key)]
                     ELSE EmptyMap]

\* C16: the cache that copy() returns is another object with the max_size,
\* the keys, the value references, the iteration order and (LFU) the
\* frequencies of the original; afterwards no call on either of the two (set,
\* touch, delete, pop, popitem, resize, clear, with the evictions they make)
\* changes the contents, the order or the frequencies of the other.
C16_Copy ==
    /\ hcall.op = "copy" =>
          /\ refs.twin # refs.orig
          /\ Contents(Load(heap, refs.twin)) = Contents(Load(heap, refs.orig))
          /\ Load(heap, refs.twin) = Load(heap, refs.orig)
    /\ refs.twin # NoAddr =>
          \A which \in {"orig", "twin"} :
              \A fr \in HeapCallsOn(Load(heap, refs[which])) :
                  Load(Called(heap, refs[which], fr), refs[Other(which)])
                      = Load(heap, refs[Other(which)])

\* a key of an LFU copy has been read and the original still has the
\* frequency the copy was made with; an entry set in the original is not in
\* the copy
C16_Witness ==
    /\ refs.twin # NoAddr
    /\ later
    /\ hcall.exc = Ok
    /\ \/ /\ hcall.op = "getitem" /\ hcall.which = "twin"
          /\ Load(heap, refs.orig).policy = "LFU"
          /\ \E key \in KeySet(Load(heap, refs.orig)) :
                Frequency(Load(heap, refs.twin), key)
                    = Frequency(Load(heap, refs.orig), key) + 1
       \/ /\ hcall.op = "setitem" /\ hcall.which = "orig"
          /\ \E key \in KeySet(Load(heap, refs.orig)) :
                key \notin KeySet(Load(heap, refs.twin))


(***************************************************************************)
(* C15.  The results of keys(), values(), items(), iter() and reversed().  *)
(***************************************************************************)
\* C15: what keys(), values(), items(), iter(cache) or reversed(cache)
\* returned is the sequence the cache listed when the method was called; no
\* later set, read, get, delete, pop, popitem, clear or resize of the cache
\* changes that sequence or makes reading it fail.
C15_Snapshot ==
    view # None =>
        /\ Consume(heap, view.v) = [elements |-> view.taken, exc |-> Ok]
        /\ \A fr \in HeapCallsOn(Load(heap, refs.orig)) :
              Consume(Called(heap, refs.orig, fr), view.v)
                  = [elements |-> view.taken, exc |-> Ok]

\* a call has changed what the cache lists since the result was returned
C15_Witness ==
    /\ view # None
    /\ later
    /\ hcall.exc = Ok
    /\ hcall.op \in {"setitem", "getitem", "delitem", "popitem", "clear", "max_size"}
    /\ Len(view.taken) >= 2
    /\ Listing(Load(heap, refs.orig), view.v.kind) # view.taken


(***************************************************************************)
(* C21.  max_size is the absolute value of what was given.                 *)
(***************************************************************************)
\* v or -v, whichever is not negative
Magnitude(v, m) == m >= 0 /\ (m = v \/ m = 0 - v)

\* C21: max_size is never negative; a cache constructed with max_size = v, or
\* assigned max_size = v, has max_size |v| afterwards, and a cache constructed
\* without max_size has max_size 10.
C21_CapacityNormalized ==
    /\ cache.max_size >= 0
    /\ last.op = "max_size" => Magnitude(last.value, cache.max_size)
    /\ \A v \in Sizes :
          /\ Magnitude(v, max_size(LRUClientCache(<<v>>)).ret)
          /\ Magnitude(v, max_size(LFUClientCache(<<v>>)).ret)
          /\ Magnitude(v, max_size(LRUResourceCache(<<v>>)).ret)
          /\ Magnitude(v, max_size(LFUResourceCache(<<v>>)).ret)
    /\ \A v \in Sizes : Magnitude(v, max_size(max_size_setter(cache, v).c).ret)
    /\ max_size(LRUClientCache(None)).ret = 10
    /\ max_size(LFUClientCache(None)).ret = 10
    /\ max_size(LRUResourceCache(None)).ret = 10
    /\ max_size(LFUResourceCache(None)).ret = 10

\* a negative max_size has been assigned to a cache that holds entries
C21_Witness ==
    /\ last.op = "max_size"
    /\ last.value < 0
    /\ cache.max_size = 0 - last.value
    /\ len(cache) > 0


(***************************************************************************)
(* C23, C24.  What a call of Session.client / Session.resource does to the *)
(* caches of the Session.                                                  *)
(***************************************************************************)
\* the outcome of session.client(...) or session.resource(...) made now
SessionCall(method, sig, eviction_policy, size) ==
    IF method = "client"
    THEN Session_client(session, created, sig, eviction_policy, size)
    ELSE Session_resource(session, created, sig, eviction_policy, size)

\* the name of the cache that eviction_policy selects
PolicyOf(eviction_policy) == IF eviction_policy = None THEN "LRU" ELSE eviction_policy[1]

Session__init__(h) ==
    LET client_LRU == Allocate(h, __new__(_ClientCacheRegistry, None, None).c)
        client_LFU == Allocate(client_LRU.h,
                               __new__(_ClientCacheRegistry, <<"str", "LFU">>, None).c)
        resource_LRU == Allocate(client_LFU.h, __new__(_ResourceCacheRegistry, None, None).c)
        resource_LFU == Allocate(resource_LRU.h,
                                 __new__(_ResourceCacheRegistry, <<"str", "LFU">>, None).c)
    IN  [h |-> resource_LFU.h,
         cache |-> [client |-> [LRU |-> client_LRU.a, LFU |-> client_LFU.a],
                    resource |-> [LRU |-> resource_LRU.a, LFU |-> resource_LFU.a]]]

\* the addresses of the caches of a Session
CachesOf(s) == {s.cache[method][policy] : method \in {"client", "resource"}, policy \in {"LRU", "LFU"}}

\* the heap when the caches of the Session s have come to hold what the
\* caches of the value v hold
Written(h, s, v) ==
    LET h1 == Store(h, s.cache["client"]["LRU"], v["client"]["LRU"], "setitem")
        h2 == Store(h1, s.cache["client"]["LFU"], v["client"]["LFU"], "setitem")
        h3 == Store(h2, s.cache["resource"]["LRU"], v["resource"]["LRU"], "setitem")
    IN  Store(h3, s.cache["resource"]["LFU"], v["resource"]["LFU"], "setitem")

\* Two Sessions made one after the other own eight cache objects with eight
\* dictionaries; when the first has come to hold what the session of this
\* state holds, the caches of the second are as they were made.
OtherSessionUntouched ==
    LET one == Session__init__(EmptyHeap)
        two == Session__init__(one.h)
        h == Written(two.h, one, session)
    IN  /\ Cardinality(CachesOf(one) \cup CachesOf(two)) = 8
        /\ Cardinality({two.h.caches[a]._cache : a \in CachesOf(one) \cup CachesOf(two)}) = 8
        /\ \A method \in {"client", "resource"}, policy \in {"LRU", "LFU"} :
              /\ Load(one.h, one.cache[method][policy]) = SessionCache[method][policy]
              /\ Load(h, one.cache[method][policy]) = session[method][policy]
              /\ Load(h, two.cache[method][policy]) = SessionCache[method][policy]

\* C24: a Session holds four caches, one for each of client and resource and
\* each of LRU and LFU; a call of Session.client / Session.resource changes
\* the cache that its method and its eviction policy select (None selecting
\* LRU) and no other, of this Session or of another; a call with an invalid
\* eviction policy raises, changes no cache and builds no object.
C24_CacheSeparation ==
    /\ DOMAIN session = {"client", "resource"}
    /\ OtherSessionUntouched
    /\ \A method \in {"client", "resource"} :
          /\ DOMAIN session[method] = {"LRU", "LFU"}
          /\ \A policy \in {"LRU", "LFU"} :
                /\ session[method][policy].policy = policy
                /\ session[method][policy].cache_type = method
    /\ \A method \in {"client", "resource"}, sig \in Signatures,
          eviction_policy \in OptPolicies, size \in SessionSizes :
          LET o == SessionCall(method, sig, eviction_policy, size)
          IN  IF eviction_policy = None \/ eviction_policy[1] \in EvictionPolicy
              THEN \A m \in {"client", "resource"}, policy \in {"LRU", "LFU"} :
                      m # method \/ policy # PolicyOf(eviction_policy)
                          => o.s[m][policy] = session[m][policy]
              ELSE /\ o.exc = "CacheError"
                   /\ o.s = session
                   /\ ~o.built
                   /\ o.created = created

\* the two calls made went to two caches, which hold one object each
C24_Witness ==
    /\ calls = 2
    /\ created = 2
    /\ scall.exc = Ok
    /\ scall.eviction_policy = <<"LFU">>
    /\ len(session[scall.method]["LFU"]) = 1
    /\ len(session[scall.method]["LRU"]) = 1
    /\ len(session[IF scall.method = "client" THEN "resource" ELSE "client"]["LFU"]) = 0


(***************************************************************************)
(* C22.  A Session whose calls never give max_size.                        *)
(***************************************************************************)
\* the caches of the Session
SessionCaches == {session[method][policy] : method \in {"client", "resource"}, policy \in {"LRU", "LFU"}}

\* C22: when max_size is never given in the calls of Session.client /
\* Session.resource, the caches are unlimited: every object that was built
\* and cached through the Session is still in the cache that took it, however
\* many call signatures were requested.
\* The code does not satisfy this: C22_UnlimitedByDefault is violated.
C22_UnlimitedByDefault ==
    \A n \in 1..created :
        \E method \in {"client", "resource"}, c \in SessionCaches :
            \E key \in KeySet(c) : Stored(c, key) = Newest(method, n)

\* C22, what holds in its place: every cache of the Session has max_size 10
\* and holds the objects of the ten signatures requested of it last.
C22_TenByDefault ==
    \A method \in {"client", "resource"}, policy \in {"LRU", "LFU"} :
        LET c == session[method][policy]
            next == NextRequest(method, c)
        IN  /\ c.max_size = 10
            /\ KeySet(c) = {RequestKey(method, i) : i \in {j \in 1..MaxRequests :
                                                            j < next /\ j >= next - 10}}

(***************************************************************************)
(* SpecKeys: two cache keys of one kind, constructed from a call signature *)
(* a and from a call signature b made from a in one of these ways:         *)
(*   same       b is a                                                     *)
(*   reordered  the named arguments in another order, or the mappings and  *)
(*              sets in the Config arguments in another internal order     *)
(*   changed    one argument with another value                            *)
(*   control    eviction_policy, max_size or both added by name            *)
(*   absent     None positional arguments added at the end, or a named     *)
(*              argument of value None added                               *)
(*   byname     the first positional argument given as service_name=...    *)
(***************************************************************************)
RECURSIVE Mirror(_)
\* the value with its mappings and sets, and those nested in them, held in
\* the opposite internal order
Mirror(value) ==
    CASE IsA(value, "dict") \/ IsA(value, "Config") ->
             <<value[1], [i \in DOMAIN value[2] |->
                            <<Reverse(value[2])[i][1], Mirror(Reverse(value[2])[i][2])>>]>>
      [] IsA(value, "set") -> <<"set", Reverse([i \in DOMAIN value[2] |-> Mirror(value[2][i])])>>
      [] IsA(value, "list") \/ IsA(value, "tuple") ->
             <<value[1], [i \in DOMAIN value[2] |-> Mirror(value[2][i])]>>
      [] OTHER -> value

RECURSIVE LogicallyEqual(_, _)
\* v == w in Python, and for two Configs: the same options
LogicallyEqual(v, w) ==
    IF Len(v) # 2 \/ Len(w) # 2 THEN v = w
    ELSE IF v[1] # w[1] THEN FALSE
    ELSE CASE v[1] \in {"dict", "Config"} ->
                  /\ {pair[1] : pair \in Range(v[2])} = {pair[1] : pair \in Range(w[2])}
                  /\ \A i \in DOMAIN v[2], j \in DOMAIN w[2] :
                         v[2][i][1] = w[2][j][1] => LogicallyEqual(v[2][i][2], w[2][j][2])
           [] v[1] = "set" ->
                  /\ \A i \in DOMAIN v[2] : \E j \in DOMAIN w[2] : LogicallyEqual(v[2][i], w[2][j])
                  /\ \A j \in DOMAIN w[2] : \E i \in DOMAIN v[2] : LogicallyEqual(v[2][i], w[2][j])
           [] v[1] \in {"list", "tuple"} ->
                  /\ Len(v[2]) = Len(w[2])
                  /\ \A i \in DOMAIN v[2] : LogicallyEqual(v[2][i], w[2][i])
           [] OTHER -> v = w

\* Config(region_name=region, retries={"mode": "standard", "max_attempts": 3})
ConfigOf(region) ==
    <<"Config", << <<"region_name", region>>,
                   <<"retries", <<"dict", << <<"mode", <<"standard">> >>,
                                             <<"max_attempts", <<"int", "3">> >> >> >> >> >> >>

\* Config(proxies=held), held a set, a list or a tuple of "a" and "b"
ConfigHolding(type, first, second) ==
    <<"Config", << <<"proxies", <<type, << <<first>>, <<second>> >> >> >> >> >>

Configs ==
    {ConfigOf(<<"us-east-1">>), ConfigOf(<<"us-west-2">>),
     ConfigHolding("set", "a", "b"), ConfigHolding("list", "a", "b"),
     ConfigHolding("list", "b", "a"), ConfigHolding("tuple", "a", "b")}

Credentials == {<<"AKIA1">>, <<"AKIA2">>}

\* the values tried for a parameter
ValuesOf(name) ==
    CASE name = "service_name" -> {<<"s3">>, <<"ec2">>}
      [] name = "region_name" -> {None, <<"us-east-1">>, <<"us-west-2">>}
      [] name \in sensitive_keys -> {None} \cup Credentials
      [] name = "config" -> {None} \cup Configs
      [] OTHER -> {None}

\* the positional arguments tried: the first n of one of these
Rows ==
    {<< <<"s3">>, None, None, None, None, None, None, None, None, None >>,
     << <<"s3">>, <<"us-east-1">>, None, None, None, None, <<"AKIA1">>, None, None,
        ConfigOf(<<"us-east-1">>) >>,
     << <<"s3">>, None, None, None, None, None, None, <<"AKIA2">>, <<"AKIA1">>,
        ConfigHolding("set", "a", "b") >>}

PositionalArgs == {SubSeq(row, 1, Min({n, Len(row)})) : row \in Rows, n \in 0..MaxArgs}

\* the named arguments tried: up to MaxNamed of these, in any order
NamedPool ==
    {<<"region_name", <<"us-east-1">> >>, <<"endpoint_url", None>>,
     <<"aws_access_key_id", <<"AKIA1">> >>, <<"aws_session_token", <<"AKIA2">> >>,
     <<"config", ConfigOf(<<"us-east-1">>)>>, <<"config", ConfigHolding("set", "a", "b")>>}

NamedArgs ==
    UNION {{kwargs \in [1..n -> NamedPool] :
                \A i, j \in 1..n : i # j => kwargs[i][1] # kwargs[j][1]} : n \in 0..MaxNamed}

\* the place of a parameter among the positional arguments
PositionOf(name) ==
    CHOOSE i \in DOMAIN parameter_names("client") : parameter_names("client")[i] = name

\* a call that Session.client and Session.resource accept gives no parameter
\* both by position and by name, and no more positional arguments than the
\* method has
Accepted(cache_type, sig) ==
    /\ Len(sig.args) + (IF kw_has(sig.kwargs, "service_name") THEN 1 ELSE 0)
           <= Len(parameter_names(cache_type))
    /\ \A i \in DOMAIN sig.kwargs :
           \/ sig.kwargs[i][1] \in {"eviction_policy", "max_size"}
           \/ sig.kwargs[i][1] = "service_name" /\ Len(sig.args) < Len(parameter_names(cache_type))
           \/ /\ sig.kwargs[i][1] # "service_name"
              /\ PositionOf(sig.kwargs[i][1])
                     > Len(sig.args) + (IF kw_has(sig.kwargs, "service_name") THEN 1 ELSE 0)

CallSignatures ==
    {sig \in [args : PositionalArgs, kwargs : NamedArgs] : Accepted("resource", sig)}

\* s with the i-th element replaced by e
Replace(s, i, e) == [s EXCEPT ![i] = e]

Reordered(a) ==
    {[args |-> args, kwargs |-> kwargs] :
         args \in {a.args, [i \in DOMAIN a.args |-> Mirror(a.args[i])]},
         kwargs \in UNION {{[i \in DOMAIN a.kwargs |-> a.kwargs[p[i]]],
                            [i \in DOMAIN a.kwargs |->
                                <<a.kwargs[p[i]][1], Mirror(a.kwargs[p[i]][2])>>]} :
                               p \in Permutations(DOMAIN a.kwargs)}}
        \ {a}

\* the values tried for a parameter that are not the value given
OtherValues(name, value) == {other \in ValuesOf(name) : ~LogicallyEqual(other, value)}

Changed(a) ==
    UNION {{[args |-> Replace(a.args, i, other), kwargs |-> a.kwargs] :
                other \in OtherValues(parameter_names("resource")[i], a.args[i])} :
               i \in DOMAIN a.args}
    \cup UNION {{[args |-> a.args,
                  kwargs |-> Replace(a.kwargs, i, <<a.kwargs[i][1], other>>)] :
                     other \in OtherValues(a.kwargs[i][1], a.kwargs[i][2])} :
                    i \in DOMAIN a.kwargs}

ControlArgs ==
    {<< <<"eviction_policy", <<"LFU">> >> >>, << <<"max_size", <<"int", "5">> >> >>,
     << <<"eviction_policy", None>>, <<"max_size", <<"int", "5">> >> >>}

Control(a) ==
    {[args |-> a.args, kwargs |-> a.kwargs \o control] : control \in ControlArgs}
    \cup {[args |-> a.args, kwargs |-> control \o a.kwargs] : control \in ControlArgs}

\* n times None
Nones(n) == [i \in 1..n |-> None]

Absent(a) ==
    {[args |-> a.args \o Nones(n), kwargs |-> a.kwargs] : n \in 1..(MaxArgs - Len(a.args))}
    \cup {[args |-> a.args, kwargs |-> a.kwargs \o << <<name, None>> >>] :
              name \in {name \in {"region_name", "aws_secret_access_key"} :
                            ~kw_has(a.kwargs, name)}}

ByName(a) ==
    IF a.args = <<>> THEN {}
    ELSE {[args |-> Tail(a.args), kwargs |-> a.kwargs \o << <<"service_name", a.args[1]>> >>],
          [args |-> Tail(a.args), kwargs |-> << <<"service_name", a.args[1]>> >> \o a.kwargs]}

Ways == {"same", "reordered", "changed", "control", "absent", "byname"}

Made(a, how) ==
    CASE how = "same" -> {a}
      [] how = "reordered" -> Reordered(a)
      [] how = "changed" -> Changed(a)
      [] how = "control" -> Control(a)
      [] how = "absent" -> Absent(a)
      [] how = "byname" -> ByName(a)

InitKeys ==
    /\ \E a \in CallSignatures, how \in Ways :
           \E b \in {sig \in Made(a, how) : Accepted("resource", sig)} :
               signatures = [a |-> a, b |-> b, how |-> how]
    /\ cachekeys = <<>>
    /\ NoCache
    /\ NoSession
    /\ NoThreads
    /\ NoHeap

\* ClientCacheKey(*a.args, **a.kwargs) and ClientCacheKey(*b.args, **b.kwargs)
ClientCacheKeys ==
    /\ cachekeys = <<>>
    /\ cachekeys' = [a |-> _create("client", signatures.a.args, signatures.a.kwargs),
                     b |-> _create("client", signatures.b.args, signatures.b.kwargs)]
    /\ UNCHANGED <<signatures, cvars, svars, tvars, hvars>>

\* ResourceCacheKey(*a.args, **a.kwargs) and ResourceCacheKey(*b.args, **b.kwargs)
ResourceCacheKeys ==
    /\ cachekeys = <<>>
    /\ cachekeys' = [a |-> _create("resource", signatures.a.args, signatures.a.kwargs),
                     b |-> _create("resource", signatures.b.args, signatures.b.kwargs)]
    /\ UNCHANGED <<signatures, cvars, svars, tvars, hvars>>

NextKeys == ClientCacheKeys \/ ResourceCacheKeys

SpecKeys == InitKeys /\ [][NextKeys]_vars

\* the two cache keys have been constructed
Constructed == DOMAIN cachekeys # {}

\* C30: a key built with service_name passed by name is equal to, and has the
\* same hash, key, _key, label and _label as, the key built with the same
\* value as first positional argument and the other arguments unchanged.
C30_ServiceNameByName ==
    Constructed /\ signatures.how = "byname" =>
        /\ __eq__(cachekeys.a, cachekeys.b)
        /\ __hash__(cachekeys.a) = __hash__(cachekeys.b)
        /\ cachekeys.a.key = cachekeys.b.key
        /\ cachekeys.a._key = cachekeys.b._key
        /\ cachekeys.a.label = cachekeys.b.label
        /\ cachekeys.a._label = cachekeys.b._label

\* service_name was given by name before another named argument, and a
\* credential by position
C30_Witness ==
    /\ Constructed
    /\ signatures.how = "byname"
    /\ Len(signatures.b.kwargs) > 1
    /\ signatures.b.kwargs[1][1] = "service_name"
    /\ Len(signatures.b.args) >= 6
    /\ signatures.b.args[6] \in Credentials

\* the parameter is named neither in the named arguments of the key nor in a
\* name=... part of the label
Unmentioned(name, key, text) ==
    /\ \A i \in DOMAIN key[2] : key[2][i][1] # name
    /\ \A i \in DOMAIN text : text[i][1] = "kw" => text[i][2] # name

\* C28: a key built with the named arguments eviction_policy and/or max_size
\* is equal to the key built from the same signature without them; their key,
\* _key, label and _label are identical and mention neither parameter.
C28_CacheControlIgnored ==
    Constructed /\ signatures.how = "control" =>
        /\ __eq__(cachekeys.a, cachekeys.b)
        /\ cachekeys.a.key = cachekeys.b.key
        /\ cachekeys.a._key = cachekeys.b._key
        /\ cachekeys.a.label = cachekeys.b.label
        /\ cachekeys.a._label = cachekeys.b._label
        /\ \A name \in {"eviction_policy", "max_size"} :
               /\ Unmentioned(name, cachekeys.b.key, cachekeys.b.label)
               /\ Unmentioned(name, cachekeys.b._key, cachekeys.b._label)

\* eviction_policy and max_size were both given, before other named arguments
C28_Witness ==
    /\ Constructed
    /\ signatures.how = "control"
    /\ Len(signatures.b.kwargs) > 2
    /\ signatures.b.kwargs[1][1] = "eviction_policy"
    /\ signatures.b.kwargs[2][1] = "max_size"

\* the signatures differ in the credential given for a sensitive parameter
\* and in nothing else
DiffersInCredential ==
    /\ signatures.how = "changed"
    /\ \/ \E i \in DOMAIN signatures.a.args :
              /\ i \in sensitive_arg_positions("resource")
              /\ signatures.a.args[i] \in Credentials
              /\ signatures.b.args[i] \in Credentials \ {signatures.a.args[i]}
       \/ \E i \in DOMAIN signatures.a.kwargs :
              /\ signatures.a.kwargs[i][1] \in sensitive_keys
              /\ signatures.a.kwargs[i][2] \in Credentials
              /\ signatures.b.kwargs[i][2] \in Credentials \ {signatures.a.kwargs[i][2]}

\* the entries of a dict after d[x] = ...; d[y] = ...: y finds the entry of x
\* when their hashes are equal and x == y
EntriesOf(x, y) == IF __hash__(x) = __hash__(y) /\ __eq__(x, y) THEN 1 ELSE 2

\* C27: two keys whose signatures differ only in the value of a sensitive
\* parameter are unequal, and a cache holds them as two entries, although
\* their public label and public key are identical; two keys of one kind are
\* equal exactly when their unredacted _key is the same, and then their
\* hashes are equal.
C27_RedactionKeepsIdentity ==
    Constructed =>
        /\ DiffersInCredential =>
               /\ ~__eq__(cachekeys.a, cachekeys.b)
               /\ EntriesOf(cachekeys.a, cachekeys.b) = 2
               /\ cachekeys.a.label = cachekeys.b.label
               /\ cachekeys.a.key = cachekeys.b.key
        /\ __eq__(cachekeys.a, cachekeys.b) <=> cachekeys.a._key = cachekeys.b._key
        /\ cachekeys.a._key = cachekeys.b._key => __hash__(cachekeys.a) = __hash__(cachekeys.b)

\* two keys that differ in a credential given by position
C27_Witness ==
    /\ Constructed
    /\ DiffersInCredential
    /\ signatures.a.args # signatures.b.args
    /\ cachekeys.a.key = cachekeys.b.key

RECURSIVE InValue(_, _)
\* the string v is the value, or an element, a key or a value nested in it
InValue(v, value) ==
    \/ value = v
    \/ /\ Len(value) = 2
       /\ CASE value[1] \in {"tuple", "list", "set"} ->
                   \E i \in DOMAIN value[2] : InValue(v, value[2][i])
            [] value[1] \in {"dict", "Config"} ->
                   \E i \in DOMAIN value[2] :
                       <<value[2][i][1]>> = v \/ InValue(v, value[2][i][2])
            [] OTHER -> FALSE

\* the string v is in the canonical key
InKey(v, key) ==
    \/ \E i \in DOMAIN key[1] : InValue(v, key[1][i])
    \/ \E i \in DOMAIN key[2] : InValue(v, key[2][i][2])

\* the string v is in the text of the label
InLabel(v, text) ==
    \E i \in DOMAIN text :
        \/ text[i][1] = "repr" /\ InValue(v, text[i][2])
        \/ /\ text[i][1] = "kw"
           /\ \/ text[i][3][1] = "repr" /\ InValue(v, text[i][3][2])
              \/ /\ text[i][3][1] = "Config"
                 /\ \E j \in DOMAIN text[i][3][2] : InValue(v, text[i][3][2][j][2][2])

\* the string v is in no public rendering of the cache key
Hidden(v, self) ==
    /\ ~InLabel(v, self.label)
    /\ ~InKey(v, self.key)
    /\ ~InLabel(v, __str__(self))
    /\ ~InLabel(v, __repr__(self)[5])

\* C26: a value v passed under aws_access_key_id, aws_secret_access_key or
\* aws_session_token, by name or at that parameter's position, is neither in
\* the public label nor in the public key nor in str() or repr() of the key,
\* where *** stands in its place; the private _label and _key hold v there.
C26_RedactionNeverLeaks ==
    Constructed =>
        \A k \in {"a", "b"} :
            ~kw_has(signatures[k].kwargs, "service_name") =>
                /\ \A i \in DOMAIN signatures[k].args :
                       /\ i \in sensitive_arg_positions(cachekeys[k].cache_type)
                       /\ signatures[k].args[i] \in Credentials
                       => /\ Hidden(signatures[k].args[i], cachekeys[k])
                          /\ cachekeys[k].label[i] = <<"repr", <<"***">> >>
                          /\ cachekeys[k].key[1][i] = <<"***">>
                          /\ cachekeys[k]._label[i] = <<"repr", signatures[k].args[i]>>
                          /\ cachekeys[k]._key[1][i] = signatures[k].args[i]
                /\ \A i \in DOMAIN signatures[k].kwargs :
                       /\ signatures[k].kwargs[i][1] \in sensitive_keys
                       /\ signatures[k].kwargs[i][2] \in Credentials
                       => /\ Hidden(signatures[k].kwargs[i][2], cachekeys[k])
                          /\ <<"kw", signatures[k].kwargs[i][1], <<"text", "***">> >>
                                 \in Range(cachekeys[k].label)
                          /\ <<signatures[k].kwargs[i][1], <<"***">> >>
                                 \in Range(cachekeys[k].key[2])
                          /\ <<"kw", signatures[k].kwargs[i][1],
                               <<"repr", signatures[k].kwargs[i][2]>> >>
                                 \in Range(cachekeys[k]._label)
                          /\ signatures[k].kwargs[i] \in Range(cachekeys[k]._key[2])

\* a key was built with one credential given by position and another by name
C26_Witness ==
    /\ Constructed
    /\ Len(signatures.a.args) >= 7
    /\ signatures.a.args[7] \in Credentials
    /\ \E i \in DOMAIN signatures.a.kwargs :
           /\ signatures.a.kwargs[i][1] \in sensitive_keys
           /\ signatures.a.kwargs[i][2] \in Credentials
    /\ InKey(signatures.a.args[7], cachekeys.a._key)
    /\ ~InKey(signatures.a.args[7], cachekeys.a.key)

\* the place of the last positional argument that is not None, 0 without one
LastGiven(args) ==
    Len(args) - Min({n \in 0..Len(args) : n = Len(args) \/ args[Len(args) - n] # None})

\* the names of the named arguments of the key
NamesIn(key) == {key[2][i][1] : i \in DOMAIN key[2]}

\* the names of the named arguments of the signature whose value is not None,
\* cache control apart
NamesGiven(sig) ==
    {sig.kwargs[i][1] : i \in {i \in DOMAIN sig.kwargs : sig.kwargs[i][2] # None}}
        \ {"eviction_policy", "max_size"}

\* C29: in the public key and in the private _key the trailing None positional
\* arguments are removed, a None positional argument followed by one that is
\* not None is kept, and the named arguments of value None are removed; two
\* signatures that differ only in trailing None positional arguments or in
\* named arguments of value None give equal keys with identical key and _key.
C29_AbsentNormalized ==
    Constructed =>
        /\ \A k \in {"a", "b"} :
               ~kw_has(signatures[k].kwargs, "service_name") =>
                   /\ Len(cachekeys[k].key[1]) = LastGiven(signatures[k].args)
                   /\ Len(cachekeys[k]._key[1]) = LastGiven(signatures[k].args)
                   /\ NamesIn(cachekeys[k].key) = NamesGiven(signatures[k])
                   /\ NamesIn(cachekeys[k]._key) = NamesGiven(signatures[k])
        /\ signatures.how = "absent" =>
               /\ __eq__(cachekeys.a, cachekeys.b)
               /\ cachekeys.a.key = cachekeys.b.key
               /\ cachekeys.a._key = cachekeys.b._key

\* what holds of the private _key, and of the named arguments of the public
\* key: the _key is normalized as C29 says, and so are the named arguments of
\* the key; the positional arguments of the key reach to the last one that
\* is not None or stands at the position of a credential
C29_ClearKeyNormalized ==
    Constructed =>
        /\ \A k \in {"a", "b"} :
               ~kw_has(signatures[k].kwargs, "service_name") =>
                   /\ Len(cachekeys[k]._key[1]) = LastGiven(signatures[k].args)
                   /\ \A i \in 1..LastGiven(signatures[k].args) :
                          signatures[k].args[i] = None => cachekeys[k]._key[1][i] = None
                   /\ NamesIn(cachekeys[k].key) = NamesGiven(signatures[k])
                   /\ NamesIn(cachekeys[k]._key) = NamesGiven(signatures[k])
                   /\ Len(cachekeys[k].key[1]) =
                          LastGiven([i \in DOMAIN signatures[k].args |->
                                        IF i \in sensitive_arg_positions(cachekeys[k].cache_type)
                                        THEN <<"***">>
                                        ELSE signatures[k].args[i]])
        /\ signatures.how = "absent" =>
               /\ __eq__(cachekeys.a, cachekeys.b)
               /\ cachekeys.a._key = cachekeys.b._key

\* the elements of a list, a tuple or a set as a sequence, those of a set in
\* sorted order
ElementsOf(value) == IF value[1] = "set" THEN sorted_strings(value[2]) ELSE value[2]

RECURSIVE Alike(_, _)
\* the values are equal but for the kind of the containers in them: a list,
\* a tuple and a set in sorted order of the same elements are alike
Alike(v, w) ==
    IF Len(v) # 2 \/ Len(w) # 2 THEN v = w
    ELSE CASE v[1] \in {"list", "tuple", "set"} /\ w[1] \in {"list", "tuple", "set"} ->
                  /\ Len(v[2]) = Len(w[2])
                  /\ \A i \in DOMAIN v[2] : Alike(ElementsOf(v)[i], ElementsOf(w)[i])
           [] v[1] \in {"dict", "Config"} /\ w[1] = v[1] ->
                  /\ {pair[1] : pair \in Range(v[2])} = {pair[1] : pair \in Range(w[2])}
                  /\ \A i \in DOMAIN v[2], j \in DOMAIN w[2] :
                         v[2][i][1] = w[2][j][1] => Alike(v[2][i][2], w[2][j][2])
           [] OTHER -> v[1] = w[1] /\ v = w

\* the arguments of the two signatures are alike, one by one
AlikeSignatures ==
    /\ \A i \in DOMAIN signatures.a.args : Alike(signatures.a.args[i], signatures.b.args[i])
    /\ \A i \in DOMAIN signatures.a.kwargs :
           Alike(signatures.a.kwargs[i][2], signatures.b.kwargs[i][2])

\* C25, as stated: two keys of one kind whose signatures differ only in the
\* order of the named arguments, or in the internal order of the mappings and
\* sets in a Config argument, are equal and have equal hashes; keys whose
\* signatures differ in an argument value are unequal; equal keys have equal
\* hashes.
C25_KeyEquality ==
    Constructed =>
        /\ signatures.how = "reordered" =>
               /\ __eq__(cachekeys.a, cachekeys.b)
               /\ __hash__(cachekeys.a) = __hash__(cachekeys.b)
        /\ signatures.how = "changed" => ~__eq__(cachekeys.a, cachekeys.b)
        /\ __eq__(cachekeys.a, cachekeys.b) => __hash__(cachekeys.a) = __hash__(cachekeys.b)

\* C25, amended: as stated, but keys whose signatures differ in an argument
\* value are unequal unless the two values are alike, which two Configs are
\* whose options differ only in holding a list, a tuple or a set of the same
\* elements; those keys are equal.
C25_KeyEqualityOfAlike ==
    Constructed =>
        /\ signatures.how = "reordered" =>
               /\ __eq__(cachekeys.a, cachekeys.b)
               /\ __hash__(cachekeys.a) = __hash__(cachekeys.b)
        /\ signatures.how = "changed" => (__eq__(cachekeys.a, cachekeys.b) <=> AlikeSignatures)
        /\ __eq__(cachekeys.a, cachekeys.b) => __hash__(cachekeys.a) = __hash__(cachekeys.b)

\* two keys were built from signatures whose named arguments are in another
\* order and whose Config holds its options, and the mapping in them, in
\* another order
C25_Witness ==
    /\ Constructed
    /\ signatures.how = "reordered"
    /\ Len(signatures.a.kwargs) = 2
    /\ signatures.a.kwargs[1][1] = signatures.b.kwargs[2][1]
    /\ signatures.a.kwargs[1][1] = "config"
    /\ signatures.a.kwargs[1][2] = ConfigOf(<<"us-east-1">>)
    /\ signatures.b.kwargs[2][2] = Mirror(ConfigOf(<<"us-east-1">>))
    /\ __eq__(cachekeys.a, cachekeys.b)

(***************************************************************************)
(* SpecLFU: one LFU cache and one caller, a call per step; the shape of    *)
(* its frequency index.                                                    *)
(***************************************************************************)
InitLFU == Init /\ cache.policy = "LFU"

SpecLFU == InitLFU /\ [][Next]_vars

\* along the list from head: frequencies >= 1, strictly increasing, and no
\* node with an empty key set
Ascending(f) ==
    LET chain == Linked(f)
    IN  \A i \in DOMAIN chain :
            /\ f.nodes[chain[i]].frequency >= 1
            /\ f.nodes[chain[i]].keys # <<>>
            /\ i > 1 => f.nodes[chain[i - 1]].frequency < f.nodes[chain[i]].frequency

\* C31: after every operation of the frequency index (insert, increment,
\* delete, pop_least_frequent, copy) the frequencies of the linked nodes are
\* >= 1 and strictly increasing from head to tail, and no linked node has an
\* empty key set.
C31_FrequencyListShape ==
    cache.policy = "LFU" =>
        /\ Ascending(cache.frequencies)
        /\ \A key \in Keys \ DOMAIN cache.frequencies.key_to_node :
               Ascending(FI_insert(cache.frequencies, key))
        /\ \A key \in DOMAIN cache.frequencies.key_to_node :
               /\ Ascending(FI_increment(cache.frequencies, key))
               /\ Ascending(FI_delete(cache.frequencies, key))
        /\ cache.frequencies.head # NoNode =>
               Ascending(FI_pop_least_frequent(cache.frequencies).f)
        /\ Ascending(FI_copy(cache.frequencies))

\* the index holds two nodes, and the only key of the first is incremented
\* into the second, which leaves the first without keys
C31_Witness ==
    /\ cache.policy = "LFU"
    /\ Len(Linked(cache.frequencies)) = 2
    /\ last.op \in {"getitem", "get"}
    /\ last.exc = Ok
    /\ \E key \in DOMAIN cache.frequencies.key_to_node :
           /\ cache.frequencies.nodes[cache.frequencies.key_to_node[key]].keys = <<key>>
           /\ cache.frequencies.key_to_node[key] = cache.frequencies.head
           /\ Len(Linked(FI_increment(cache.frequencies, key))) = 1

\* the linked nodes that hold the key in their key set
NodesOf(f, key) == {node \in Range(Linked(f)) : key \in Range(f.nodes[node].keys)}

\* C32: between the operations of an LFU cache the key set of the backing
\* map, the domain of the key-to-node table and the union of the key sets of
\* the linked nodes are the same set; every key is in the key set of exactly
\* one linked node, once, and that node is the one the table gives for it.
C32_MapAndIndexAgree ==
    cache.policy = "LFU" =>
        /\ DOMAIN cache.frequencies.key_to_node = DOMAIN cache.map
        /\ UNION {Range(cache.frequencies.nodes[node].keys) :
                      node \in Range(Linked(cache.frequencies))} = DOMAIN cache.map
        /\ \A key \in DOMAIN cache.map :
               /\ NodesOf(cache.frequencies, key) = {cache.frequencies.key_to_node[key]}
               /\ Len(KS_del(cache.frequencies.nodes[cache.frequencies.key_to_node[key]].keys,
                             key))
                      = Len(cache.frequencies.nodes[cache.frequencies.key_to_node[key]].keys) - 1

\* a key was removed from an LFU cache that holds keys in two nodes
C32_Witness ==
    /\ cache.policy = "LFU"
    /\ last.op \in {"delitem", "pop", "popitem"}
    /\ last.exc = Ok
    /\ Len(Linked(cache.frequencies)) = 2
    /\ Cardinality(DOMAIN cache.map) = 2

\* the key set of the node that holds the key
Bucket(c, key) == c.frequencies.nodes[c.frequencies.key_to_node[key]].keys

\* C33: in an LFU cache the frequency of every present key is 1 plus the
\* number of cache[key] and get(key) hits on it since it was last inserted;
\* a hit raises the frequency of its key by exactly 1, leaves every other
\* frequency alone and puts the key last in the key set of its new node.
C33_FrequencyCountsTouches ==
    cache.policy = "LFU" =>
        /\ \A key \in DOMAIN cache.map : Frequency(cache, key) = 1 + hits[key]
        /\ \A key \in DOMAIN cache.map :
               \A r \in {__getitem__(cache, key), get(cache, key, None)} :
                   /\ r.exc = Ok
                   /\ r.ret = cache.map[key]
                   /\ Frequency(r.c, key) = Frequency(cache, key) + 1
                   /\ Bucket(r.c, key)[Len(Bucket(r.c, key))] = key
                   /\ \A other \in DOMAIN cache.map \ {key} :
                          Frequency(r.c, other) = Frequency(cache, other)

\* a hit moved its key behind a key that already had the new frequency
C33_Witness ==
    /\ cache.policy = "LFU"
    /\ last.op \in {"getitem", "get"}
    /\ last.exc = Ok
    /\ last.key \in DOMAIN cache.map
    /\ hits[last.key] = 1
    /\ Len(Bucket(cache, last.key)) = 2
    /\ Bucket(cache, last.key)[2] = last.key

\* the nodes from tail along prev, as far as the links lead
RECURSIVE ChainBack(_, _, _)
ChainBack(f, current, fuel) ==
    IF current = NoNode \/ current \notin DOMAIN f.nodes \/ fuel = 0
    THEN <<>>
    ELSE <<current>> \o ChainBack(f, f.nodes[current].prev, fuel - 1)

LinkedBack(f) == ChainBack(f, f.tail, Cardinality(DOMAIN f.nodes) + 1)

\* a link leads to a node of the list or nowhere, never to a pruned node
Live(f, node) == node = NoNode \/ node \in DOMAIN f.nodes

DoublyLinked(f) ==
    /\ (f.head = NoNode) = (f.tail = NoNode)
    /\ (f.head = NoNode) = (DOMAIN f.key_to_node = {})
    /\ Live(f, f.head) /\ Live(f, f.tail)
    /\ \A node \in DOMAIN f.nodes : Live(f, f.nodes[node].prev) /\ Live(f, f.nodes[node].next)
    /\ \A key \in DOMAIN f.key_to_node : f.key_to_node[key] \in DOMAIN f.nodes
    /\ f.head # NoNode => f.nodes[f.head].prev = NoNode
    /\ f.tail # NoNode => f.nodes[f.tail].next = NoNode
    /\ \A node \in DOMAIN f.nodes :
           f.nodes[node].next # NoNode => f.nodes[f.nodes[node].next].prev = node
    /\ LET chain == Linked(f)
       IN  /\ NoDuplicates(chain)
           /\ chain = Reverse(LinkedBack(f))
           /\ Range(chain) = DOMAIN f.nodes

\* C34: after every operation of the frequency index of an LFU cache head is
\* absent iff tail is absent iff the index holds no key; head has no
\* predecessor and tail no successor; the predecessor of the successor of a
\* node is the node; the walk from head by next and the walk from tail by
\* prev visit the same nodes in opposite orders; and no link leads to a
\* pruned node.
C34_DoublyLinked ==
    cache.policy = "LFU" =>
        /\ DoublyLinked(cache.frequencies)
        /\ \A key \in Keys \ DOMAIN cache.frequencies.key_to_node :
               DoublyLinked(FI_insert(cache.frequencies, key))
        /\ \A key \in DOMAIN cache.frequencies.key_to_node :
               /\ DoublyLinked(FI_increment(cache.frequencies, key))
               /\ DoublyLinked(FI_delete(cache.frequencies, key))
        /\ cache.frequencies.head # NoNode =>
               DoublyLinked(FI_pop_least_frequent(cache.frequencies).f)
        /\ DoublyLinked(FI_copy(cache.frequencies))

\* a hit has made a node of frequency 3 behind the node of frequency 1, and
\* a hit on the key of frequency 1 puts a new node between the two
C34_Witness ==
    /\ cache.policy = "LFU"
    /\ last.op \in {"getitem", "get"}
    /\ last.exc = Ok
    /\ Len(Linked(cache.frequencies)) = 2
    /\ cache.frequencies.nodes[cache.frequencies.tail].frequency = 3
    /\ \E key \in DOMAIN cache.map :
           /\ Frequency(cache, key) = 1
           /\ Len(Bucket(cache, key)) = 2
           /\ Len(Linked(FI_increment(cache.frequencies, key))) = 3

(* The operations that only read. *)
(***************************************************************************)
(* SpecUse: one cache and one caller whose arguments are of the right      *)
(* types: a cache key, and the object built for it.                        *)
(***************************************************************************)
\* cache[key] = obj with the object built for the key
SetObject == \E key \in Keys : Do("setitem", key, Obj(key), 0, __setitem__(cache, key, Obj(key)))

\* cache.get(key)
GetObject == \E key \in Keys : MayTouch(key) /\ Do("get", key, None, 0, get(cache, key, None))

NextUse ==
    \/ SetObject
    \/ GetItem
    \/ GetObject
    \/ DelItem
    \/ Pop
    \/ PopItem
    \/ Clear
    \/ SetMaxSize

SpecUse == Init /\ [][NextUse]_vars

\* LRU __contains__ with the bug that a hit counts as a use
LRU__contains__touching(c, key) ==
    IF OD_contains(c.od, key)
    THEN Result([c EXCEPT !.od = OD_move_to_end(@, key)], TRUE, Ok)
    ELSE Result(c, FALSE, Ok)

\* key in cache, LRU: return key in self._cache
LRU__contains__(c, key) == Result(c, OD_contains(c.od, key), Ok)

\* LFU __contains__ with the bug that a hit counts as a use
LFU__contains__touching(c, key) ==
    IF key \in DOMAIN c.map
    THEN Result([c EXCEPT !.frequencies = FI_increment(@, key)], TRUE, Ok)
    ELSE Result(c, FALSE, Ok)

\* key in cache, LFU: return key in self._cache
LFU__contains__(c, key) == Result(c, key \in DOMAIN c.map, Ok)

\* str(cache) and repr(cache): the class name and the labels of the keys in
\* iteration order, a key standing for its label
Cache__str__(c) ==
    IF keys(c) = <<>>
    THEN Result(c, <<capitalize(c.cache_type), "Cache(empty)">>, Ok)
    ELSE Result(c, <<capitalize(c.cache_type), "Cache:", keys(c)>>, Ok)

\* the calls that only read, each with the cache it leaves and what it returns
Contains(c, key) ==
    IF c.policy = "LRU" THEN LRU__contains__(c, key) ELSE LFU__contains__(c, key)

Reads(c) ==
    <<Result(c, len(c), Ok), Result(c, keys(c), Ok), Result(c, values(c), Ok),
      Result(c, items(c), Ok), Result(c, __iter__(c), Ok), Result(c, __reversed__(c), Ok),
      Result(c, copy(c), Ok), Cache__str__(c), max_size(c)>>
        \o [key \in Keys |-> Contains(c, key)]

\* C35: len, key in cache, keys, values, items, iter, reversed, str and repr,
\* copy and reading max_size raise nothing and leave the contents, the order
\* and the frequencies of the cache as they were; after a membership test
\* the next set evicts the key it would have evicted without the test.
C35_ReadsDoNotTouch ==
    /\ LET reads == Reads(cache)
       IN  \A i \in DOMAIN reads : reads[i].exc = Ok /\ reads[i].c = cache
    /\ \A key \in Keys :
           LET r == Contains(cache, key)
           IN  /\ r.ret = __contains__(cache, key)
               /\ keys(r.c) = keys(cache)
               /\ \A new \in Keys \ KeySet(cache) :
                      __setitem__(r.c, new, Obj(new)) = __setitem__(cache, new, Obj(new))

\* a full cache of two keys: the first is found by a membership test and is
\* the one the next set evicts
C35_Witness ==
    /\ len(cache) = 2
    /\ cache.max_size = 2
    /\ last.op \in {"getitem", "get"}
    /\ last.exc = Ok
    /\ \E key \in Keys, new \in Keys :
           LET r == Contains(cache, key)
           IN  /\ r.ret = TRUE
               /\ ~__contains__(cache, new)
               /\ ~__contains__(__setitem__(r.c, new, Obj(new)).c, key)

\* the cache after the call is the cache before it without the one key:
\* every other key keeps its value, its place among the others and (LFU)
\* its frequency, and max_size is as it was
OnlyRemoved(before, after, key) ==
    /\ KeySet(after) = KeySet(before) \ {key}
    /\ len(after) = len(before) - 1
    /\ keys(after) = KS_del(keys(before), key)
    /\ after.max_size = before.max_size
    /\ \A other \in KeySet(after) :
           /\ Stored(after, other) = Stored(before, other)
           /\ before.policy = "LFU" => Frequency(after, other) = Frequency(before, other)

\* the cache the set of a new key leaves, without the new key
WithoutNew(c, new) ==
    IF c.policy = "LRU" THEN [c EXCEPT !.od = OD_del(@, new)]
    ELSE [c EXCEPT !.map = MapDel(@, new), !.frequencies = FI_delete(@, new)]

\* C36: a successful del cache[key], pop(key), popitem() and the eviction of
\* a set on a full cache remove exactly one entry; pop and popitem return
\* the value that was stored for it; every other key keeps its value, its
\* place among the remaining keys and (LFU) its frequency; max_size stays.
C36_RemovalIsLocal ==
    /\ \A key \in KeySet(cache) :
           LET d == __delitem__(cache, key)
               p == pop(cache, key)
           IN  /\ d.exc = Ok
               /\ OnlyRemoved(cache, d.c, key)
               /\ p.exc = Ok
               /\ p.ret = Stored(cache, key)
               /\ OnlyRemoved(cache, p.c, key)
    /\ KeySet(cache) # {} =>
           LET r == popitem(cache)
           IN  /\ r.exc = Ok
               /\ r.ret[1] \in KeySet(cache)
               /\ r.ret[2] = Stored(cache, r.ret[1])
               /\ OnlyRemoved(cache, r.c, r.ret[1])
    /\ len(cache) = cache.max_size /\ cache.max_size >= 1 =>
           \A new \in Keys \ KeySet(cache) :
               LET r == __setitem__(cache, new, Obj(new))
                   rest == WithoutNew(r.c, new)
               IN  /\ r.exc = Ok
                   /\ \E victim \in KeySet(cache) \ KeySet(rest) :
                          OnlyRemoved(cache, rest, victim)
    /\ last.op \in {"delitem", "pop", "popitem"} /\ last.exc = Ok => Len(last.removed) = 1
    /\ last.op = "setitem" => Len(last.removed) <= 1

\* pop(key) took one of three keys and returned its object
C36_Witness ==
    /\ last.op = "pop"
    /\ last.exc = Ok
    /\ last.ret = Obj(last.key)
    /\ len(cache) = 2
    /\ \E new \in Keys \ KeySet(cache) :
           /\ new = last.key
           /\ Len(last.removed) = 1
           /\ last.removed[1].k = new

\* the key is in the cache as a key that was never there before: with the
\* value given, (LFU) at frequency 1 and last in the key set of that node,
\* (LRU) last in the order
AsNew(c, key, obj) ==
    /\ __contains__(c, key)
    /\ Stored(c, key) = obj
    /\ c.policy = "LFU" =>
           /\ Frequency(c, key) = 1
           /\ Bucket(c, key)[Len(Bucket(c, key))] = key
           /\ c.frequencies.key_to_node[key] = c.frequencies.head
    /\ c.policy = "LRU" => keys(c)[Len(keys(c))] = key

\* C37: a key that is not in the cache, whatever removed it (del, pop,
\* popitem, an eviction, a max_size assignment, clear) and whatever
\* frequency it had, is set without an exists error and, when max_size >= 1,
\* is then in the cache as a new key; clear() leaves an empty cache with
\* max_size unchanged, in which every key is set as a new key.
C37_NoMemoryOfRemovedKeys ==
    /\ \A key \in Keys \ KeySet(cache) :
           LET r == __setitem__(cache, key, Obj(key))
           IN  /\ r.exc = Ok
               /\ cache.max_size >= 1 => AsNew(r.c, key, Obj(key))
    /\ \A i \in DOMAIN last.removed :
           /\ ~__contains__(cache, last.removed[i].k)
           /\ last.removed[i].k \notin DOMAIN hits
    /\ last.op = "setitem" /\ last.exc = Ok /\ __contains__(cache, last.key) =>
           /\ AsNew(cache, last.key, last.obj)
           /\ hits[last.key] = 0
           /\ ranking[Len(ranking)] = last.key \/ cache.policy = "LFU"
    /\ LET cleared == clear(cache)
       IN  /\ cleared.exc = Ok
           /\ len(cleared.c) = 0
           /\ keys(cleared.c) = <<>>
           /\ cleared.c.max_size = cache.max_size
           /\ \A key \in Keys :
                  LET r == __setitem__(cleared.c, key, Obj(key))
                  IN  /\ r.exc = Ok
                      /\ cache.max_size >= 1 =>
                             AsNew(r.c, key, Obj(key)) /\ keys(r.c) = <<key>>
    /\ last.op = "clear" => len(cache) = 0 /\ ranking = <<>>

\* a key that had been hit was removed from an LFU cache whose other key
\* has frequency 1: set again it goes behind that key
C37_Witness ==
    /\ cache.policy = "LFU"
    /\ last.op \in {"delitem", "pop", "popitem"}
    /\ last.exc = Ok
    /\ Len(last.removed) = 1
    /\ last.removed[1].hits >= 1
    /\ cache.max_size >= 2
    /\ len(cache) = 1
    /\ \A other \in KeySet(cache) : Frequency(cache, other) = 1
    /\ Len(Bucket(__setitem__(cache, last.removed[1].k, Obj(last.removed[1].k)).c,
                  last.removed[1].k)) = 2

\* clear() emptied an LFU cache that held a key of frequency 2
C37_WitnessClear ==
    /\ last.op = "clear"
    /\ Len(last.removed) >= 1
    /\ \E i \in DOMAIN last.removed : last.removed[i].hits >= 1

\* the keys a call removed, by the observer's account
Removed(call) == {call.removed[i].k : i \in DOMAIN call.removed}

\* C38: with max_size >= 1 the set of a key that is not in the cache
\* succeeds; it evicts nothing when the cache holds fewer than max_size
\* entries and exactly one entry, never the new key, when it holds max_size;
\* afterwards the new key is present with the given value (LFU: at
\* frequency 1, LRU: as the most recently used) and the cache holds
\* min(entries before + 1, max_size) entries.
C38_AtMostOneEviction ==
    cache.max_size >= 1 =>
        /\ \A new \in Keys \ KeySet(cache) : \A obj \in {Obj(new), OtherObj} :
               LET r == __setitem__(cache, new, obj)
               IN  /\ r.exc = Ok
                   /\ AsNew(r.c, new, obj)
                   /\ len(r.c) = Min({len(cache) + 1, cache.max_size})
                   /\ len(cache) < cache.max_size => KeySet(r.c) = KeySet(cache) \cup {new}
                   /\ len(cache) = cache.max_size =>
                          \E victim \in KeySet(cache) :
                              KeySet(r.c) = (KeySet(cache) \ {victim}) \cup {new}
        /\ last.op = "setitem" /\ last.exc = Ok =>
               /\ __contains__(cache, last.key)
               /\ Stored(cache, last.key) = last.obj
               /\ Cardinality(Removed(last)) <= 1
               /\ last.key \notin Removed(last)
               /\ Removed(last) # {} => len(cache) = cache.max_size

\* a set on a full cache of two entries evicted one of them
C38_Witness ==
    /\ last.op = "setitem"
    /\ last.exc = Ok
    /\ cache.max_size = 2
    /\ len(cache) = 2
    /\ Cardinality(Removed(last)) = 1
    /\ __contains__(cache, last.key)

(***************************************************************************)
(* SpecCallers: the threads of a program call Session.client and           *)
(* Session.resource of one Session.  A thread runs the statements of the   *)
(* method one at a time; each call of a cache method in them is one step,  *)
(* the cache holding its lock from the first access to the last.  The      *)
(* frame of a thread holds the arguments and the local variables of its    *)
(* call.                                                                    *)
(***************************************************************************)
\* the max_size arguments the threads give
CallerSizes == {None, <<MaxSessionSize>>}

Outside ==
    [pc |-> "idle", method |-> "none", sig |-> None, eviction_policy |-> None,
     max_size |-> None, key |-> NotAKey, ret |-> None, exc |-> Ok]

\* the cache a call works on
CacheOf(s, fr) ==
    s[fr.method][IF fr.eviction_policy = None THEN "LRU" ELSE fr.eviction_policy[1]]

\* the Session's caches with the cache of the call replaced
WithCache(s, fr, c) ==
    [s EXCEPT ![fr.method][IF fr.eviction_policy = None THEN "LRU"
                           ELSE fr.eviction_policy[1]] = c]

\* the statements of Session.client and Session.resource up to the first
\* use of the cache: the eviction policy is validated and the key is made
Session_enter(method, sig, eviction_policy, size) ==
    LET fr == [Outside EXCEPT !.method = method, !.sig = sig,
                              !.eviction_policy = eviction_policy, !.max_size = size]
    IN  IF ~(eviction_policy = None \/ eviction_policy[1] \in EvictionPolicy)
        THEN [fr EXCEPT !.pc = "done", !.exc = "CacheError"]
        ELSE [fr EXCEPT !.pc = "contains",
                        !.key = IF method = "client" THEN ClientCacheKey(sig)
                                ELSE ResourceCacheKey(sig)]

\* self.cache[method][eviction_policy][key] = super().client(...)
Session_set(s, n, fr) ==
    LET r == __setitem__(CacheOf(s, fr), fr.key,
                         IF fr.method = "client" THEN boto3_client(n + 1)
                         ELSE boto3_resource(n + 1))
    IN  [s |-> WithCache(s, fr, r.c), created |-> n + 1,
         fr |-> IF r.exc # Ok THEN [fr EXCEPT !.pc = "done", !.exc = r.exc]
                ELSE [fr EXCEPT !.pc = "size"]]

\* the next statement of Session.client / Session.resource in a frame
Session_step(s, n, fr) ==
    CASE fr.pc = "contains" ->
            \* if key not in self.cache.client[eviction_policy]:
            [s |-> s, created |-> n,
             fr |-> [fr EXCEPT !.pc = IF __contains__(CacheOf(s, fr), fr.key)
                                      THEN "size" ELSE "set"]]
      [] fr.pc = "set" -> Session_set(s, n, fr)
      [] fr.pc = "size" ->
            \* if max_size is not None and max_size != cache.max_size:
            [s |-> s, created |-> n,
             fr |-> [fr EXCEPT !.pc = IF /\ fr.max_size # None
                                         /\ fr.max_size[1] # max_size(CacheOf(s, fr)).ret
                                      THEN "resize" ELSE "return"]]
      [] fr.pc = "resize" ->
            \* cache.max_size = max_size
            LET r == max_size_setter(CacheOf(s, fr), fr.max_size[1])
            IN  [s |-> WithCache(s, fr, r.c), created |-> n,
                 fr |-> IF r.exc # Ok THEN [fr EXCEPT !.pc = "done", !.exc = r.exc]
                        ELSE [fr EXCEPT !.pc = "return"]]
      [] fr.pc = "return" ->
            \* return self.cache[method][eviction_policy][key]
            LET r == __getitem__(CacheOf(s, fr), fr.key)
            IN  [s |-> WithCache(s, fr, r.c), created |-> n,
                 fr |-> [fr EXCEPT !.pc = "done", !.ret = r.ret, !.exc = r.exc]]

InitCallers ==
    /\ session = SessionCache
    /\ created = 0
    /\ calls = 0
    /\ scall = <<>>
    /\ frames = [t \in Threads |-> Outside]
    /\ lock = <<>>
    /\ lin = <<>>
    /\ NoCache
    /\ NoHeap
    /\ NoKeys

\* a thread that is in no call, or has come out of one, calls a method
Enter(t) ==
    /\ frames[t].pc \in {"idle", "done"}
    /\ calls < MaxEntered
    /\ \E method \in {"client", "resource"}, sig \in Signatures,
          eviction_policy \in OptPolicies, size \in CallerSizes :
           frames' = [frames EXCEPT ![t] = Session_enter(method, sig, eviction_policy, size)]
    /\ calls' = calls + 1
    /\ UNCHANGED <<session, created, scall, lock, lin, cvars, hvars, kvars>>

\* a thread executes the next statement of its call
Proceed(t) ==
    /\ frames[t].pc \notin {"idle", "done"}
    /\ \E o \in {Session_step(session, created, frames[t])} :
           /\ session' = o.s
           /\ created' = o.created
           /\ frames' = [frames EXCEPT ![t] = o.fr]
    /\ UNCHANGED <<calls, scall, lock, lin, cvars, hvars, kvars>>

NextCallers == \E t \in Threads : Enter(t) \/ Proceed(t)

SpecCallers == InitCallers /\ [][NextCallers]_vars

\* C39: when two or more threads call Session.client or Session.resource of
\* one Session, no call ends in an exists error or a not-found error, and
\* two calls with the same signature, method and eviction policy that have
\* returned have returned the same object.
C39_ConcurrentCallsSafe ==
    /\ \A t \in Threads :
           frames[t].pc = "done" => frames[t].exc \notin {"ExistsError", "NotFoundError"}
    /\ \A t, u \in Threads :
           /\ frames[t].pc = "done" /\ frames[t].exc = Ok
           /\ frames[u].pc = "done" /\ frames[u].exc = Ok
           /\ frames[t].method = frames[u].method
           /\ frames[t].key = frames[u].key
           /\ CacheOf(session, frames[t]) = CacheOf(session, frames[u])
           => frames[t].ret = frames[u].ret

(***************************************************************************)
(* SpecLive: the threads of a program call the methods of two cache        *)
(* objects, an LRU cache and an LFU cache, each with its own RLock.  A      *)
(* thread makes one call: it picks a cache, waits for the lock of that      *)
(* cache, runs the statements of the method one at a time and releases the  *)
(* lock on the way out.  A thread that can run is run in the end, and a     *)
(* thread that waits for a lock which stays free gets it: weak fairness of  *)
(* the two steps.                                                           *)
(***************************************************************************)
Instances == {1, 2}

\* the frame of a call on the cache self: before is the number of entries
\* when max_size was assigned, rounds the passes of the eviction loop; a
\* call that has come to its end keeps what it returned as <<value>>
On(self, fr) ==
    [x \in DOMAIN fr \cup {"self", "before", "rounds"} |->
        IF x = "self" THEN self ELSE IF x \in {"before", "rounds"} THEN 0 ELSE fr[x]]

\* RLock.release with the bug that the lock stays with its owner
RLock_release_never(l, t) == l

\* threading.RLock of one cache
RLock_free(l, t) == l.owner \in {NoThread, t}

RLock_acquire(l, t) == [owner |-> t, count |-> l.count + 1]

RLock_release(l, t) ==
    IF l.owner # t THEN l
    ELSE IF l.count = 1 THEN [owner |-> NoThread, count |-> 0]
    ELSE [l EXCEPT !.count = @ - 1]

InitLive ==
    /\ \E n \in 0..NumConcKeys :
           cache = [self \in Instances |->
                       Filled(IF self = 1 THEN LRUClientCache(<<n>>) ELSE LFUClientCache(<<n>>), n)]
    /\ lock = [self \in Instances |-> [owner |-> NoThread, count |-> 0]]
    /\ frames = [t \in Threads |-> On(0, Idle)]
    /\ lin = <<>>
    /\ NoObservers
    /\ NoSession
    /\ NoHeap
    /\ NoKeys

\* A thread calls a method of a cache, up to the with statement: the type
\* checks of cache[key] = obj and the max_size getter run without the lock.
StartOn(t) ==
    /\ frames[t].pc = "idle"
    /\ \E self \in Instances, fr \in Calls(t) :
          LET unlocked == \/ fr.op = "max_size_get"
                          \/ fr.op = "setitem" /\ ~(IsCacheKey(fr.key) /\ IsBotoObject(fr.obj))
              now == IF fr.op = "max_size_get" THEN max_size(cache[self])
                     ELSE Result(cache[self], None, "CacheError")
          IN  frames' = [frames EXCEPT ![t] =
                            IF unlocked
                            THEN On(self, [fr EXCEPT !.pc = "done", !.ret = <<now.ret>>,
                                                     !.exc = now.exc])
                            ELSE On(self, fr)]
    /\ UNCHANGED <<cache, lock, lin, observers, svars, hvars, kvars>>

\* with self._lock: the thread waits until the lock of its cache is free
AcquireOn(t) ==
    /\ frames[t].pc = "acq"
    /\ RLock_free(lock[frames[t].self], t)
    /\ lock' = [lock EXCEPT ![frames[t].self] = RLock_acquire(@, t)]
    /\ frames' = [frames EXCEPT ![t].pc = "s1"]
    /\ UNCHANGED <<cache, lin, observers, svars, hvars, kvars>>

\* the thread executes its next statement in the body; the lock is released
\* on the way out, be it by return or by raise
StepOn(t) ==
    /\ frames[t].pc \notin {"idle", "acq", "done"}
    /\ \E r \in {step(cache[frames[t].self], frames[t])} :
          /\ cache' = [cache EXCEPT ![frames[t].self] = r.c]
          /\ frames' = [frames EXCEPT ![t] =
                IF frames[t].op = "max_size" /\ frames[t].pc = "s1"
                THEN [r.fr EXCEPT !.before = len(r.c)]
                ELSE IF frames[t].op = "max_size" /\ frames[t].pc = "s2" /\ r.fr.pc # "done"
                THEN [r.fr EXCEPT !.rounds = @ + 1]
                ELSE IF r.fr.pc = "done" THEN [r.fr EXCEPT !.ret = <<@>>]
                ELSE r.fr]
          /\ lock' = IF r.fr.pc = "done"
                     THEN [lock EXCEPT ![frames[t].self] = RLock_release(@, t)]
                     ELSE lock
    /\ UNCHANGED <<lin, observers, svars, hvars, kvars>>

NextLive == \E t \in Threads : StartOn(t) \/ AcquireOn(t) \/ StepOn(t)

SpecLive ==
    /\ InitLive
    /\ [][NextLive]_vars
    /\ \A t \in Threads : WF_vars(AcquireOn(t)) /\ WF_vars(StepOn(t))

\* a thread is in a call that has not come to its end
Started(t) == frames[t].pc \notin {"idle", "done"}

\* the locks the thread owns
Owned(t) == {self \in Instances : lock[self].owner = t}

\* the thread owns no lock but the one of the cache it works on, and owns
\* none while it waits for one or is outside a body
OneLock(t) ==
    /\ Owned(t) \subseteq {frames[t].self}
    /\ frames[t].pc \in {"idle", "acq", "done"} => Owned(t) = {}

\* a max_size assignment that has returned ran its loop
\* max(0, entries - |value|) times and met no empty index
LoopCounted(t) ==
    frames[t].op = "max_size" /\ frames[t].pc = "done" =>
        /\ frames[t].exc = Ok
        /\ frames[t].rounds = IF frames[t].before > abs(frames[t].value)
                              THEN frames[t].before - abs(frames[t].value) ELSE 0

\* C40: every operation a thread has started on a cache comes to its end
\* and leaves the thread without a lock, whatever the other threads do on
\* the same or on another cache (copy included); a thread never waits for a
\* lock while it owns one; the eviction loop of a max_size assignment runs
\* max(0, entries - |value|) times and never meets an empty frequency index.
C40_Termination ==
    /\ [](\A t \in Threads : OneLock(t) /\ LoopCounted(t))
    /\ \A t \in Threads : Started(t) ~> (frames[t].pc = "done" /\ Owned(t) = {})

\* a max_size assignment that ran its loop twice has returned while the
\* other thread made a call on the other cache
C40_Witness ==
    \E t, u \in Threads :
        /\ frames[t].op = "max_size"
        /\ frames[t].pc = "done"
        /\ frames[t].rounds = 2
        /\ frames[t].self = 2
        /\ frames[u].op = "copy"
        /\ frames[u].pc = "done"
        /\ frames[u].self = 1

====
